---- MODULE Spec2Model ----
(***************************************************************************)
(* Family-tree viewer (kumarkalpat/ft): the loader and graph builder of    *)
(* hooks/useFamilyTree.ts and the reveal animation of App.tsx.             *)
(*                                                                         *)
(* Person ids are the numbers 1..n; 0 stands for an empty or missing       *)
(* field (the empty string / undefined of the source, both falsy).  Object *)
(* references (person.spouse, the entries of person.children, the entries  *)
(* of roots) are held as ids into peopleMap, which is the arena of the     *)
(* Person objects.  A JavaScript Map is a sequence of its values in        *)
(* insertion order, keyed by the value's id.                               *)
(***************************************************************************)
EXTENDS Integers, Sequences, FiniteSets, TLC

\* ------------------------------------------------------------------ bounds
\* Persons of a genealogy sheet checked by the graph-builder specification.
MaxId == 4
\* Persons of a genealogy sheet loaded by the application specification.
MaxCast == 3
\* Rows of a raw sheet (free ids and names, duplicates and blanks included).
MaxRows == 3
\* Children of the sibling sheets, and the distinct birth dates they carry.
MaxKids == 3
MaxDate == 2
\* Timeouts of handleNodeClick that may be pending at once.
MaxPending == 1
MaxInputs == 3
MaxFetches == 2
MaxTouches == 6
MaxTicks == 4

\* ------------------------------------------------------------ the input
\* One parsed CSV row (Papa.parse with header: true): every field a string,
\* here 0 when empty.  birthDate d > 0 is a valid ISO date; a larger d is a
\* later day.
Row(i, n, f, m, s, d) ==
    [id |-> i, name |-> n, fatherID |-> f, motherID |-> m, spouseID |-> s, birthDate |-> d]

Names == {"", "n"}

\* Relation fields a genealogy row may carry: blank, or a person a row or
\* two away.  In a cyclic genealogy row 1 may name the last person as
\* father, which puts a parent after its child and can close a cycle.  The
\* persons after the third join the family as an only child or an in-law:
\* their father and their spouse are blank or the person one row before.
Fathers(i, n, cyclic) ==
    {0} \cup {j \in {i - 1, i - 2} : j >= 1 /\ (i <= 3 \/ j = i - 1)}
        \cup (IF cyclic /\ i = 1 /\ n > 1 THEN {n} ELSE {})
Mothers(i, n) == {0} \cup {j \in {i - 1} : j >= 1 /\ i <= 3}
Spouses(i, n) == {0} \cup {j \in {i - 1, i + 1} : j >= 1 /\ j <= n /\ (i <= 3 \/ j = i - 1)}

\* The rows person i may have in a genealogy of n persons, undated.
GenealogyRows(i, n, cyclic) ==
    { Row(i, "n", f, m, s, 0) :
        f \in Fathers(i, n, cyclic), m \in Mothers(i, n), s \in Spouses(i, n) }

\* Sheets of k rows, row i being person i of a genealogy of n persons.
RECURSIVE GenealogyUpTo(_, _, _)
GenealogyUpTo(k, n, cyclic) ==
    IF k = 0 THEN { <<>> }
    ELSE { Append(sh, r) : sh \in GenealogyUpTo(k - 1, n, cyclic),
                           r \in GenealogyRows(k, n, cyclic) }

Genealogy(n, cyclic) == GenealogyUpTo(n, n, cyclic)

\* Sheets of up to MaxRows rows with free id and name: blank ids, blank
\* names and repeated ids included.
RawRows == { Row(i, n, 0, 0, 0, 0) : i \in 0..2, n \in Names }
RawSheets == UNION { [1..k -> RawRows] : k \in 0..MaxRows }

\* n parentless persons, each naming nobody, itself or a person up to two
\* rows away as spouse: one-sided, mutual and chained declarations.
SpouseChoices(i, n) == {0} \cup {j \in {i - 1, i, i + 1, i + 2} : j >= 1 /\ j <= n}
RECURSIVE SpouseSheetsUpTo(_, _)
SpouseSheetsUpTo(k, n) ==
    IF k = 0 THEN { <<>> }
    ELSE { Append(sh, Row(k, "n", 0, 0, sp, 0)) :
             sh \in SpouseSheetsUpTo(k - 1, n), sp \in SpouseChoices(k, n) }
SpouseSheets(n) == SpouseSheetsUpTo(n, n)

\* One parent (person 1) and k children, each dated or not.
SiblingSheets ==
    UNION { { [i \in 1..(k + 1) |->
                 IF i = 1 THEN Row(1, "n", 0, 0, 0, 0) ELSE Row(i, "n", 1, 0, 0, d[i - 1])] :
              d \in [1..k -> 0..MaxDate] } : k \in 2..MaxKids }

\* A parent (1), its child (2), and a person (3) who is a child of both, so
\* found in two generations, with a sibling (4) found in the later one only;
\* each of 2, 3 and 4 dated or not.
MultiPathSheets ==
    { << Row(1, "n", 0, 0, 0, 0), Row(2, "n", 1, 0, 0, d[2]),
         Row(3, "n", 1, 2, 0, d[3]), Row(4, "n", 2, 0, 0, d[4]) >> :
      d \in [2..4 -> 0..MaxDate] }

\* --------------------------------------------- processData: row -> Person
\* What the row mapper returns for a rejected row.
null ==
    [id |-> 0, name |-> "", fatherID |-> 0, motherID |-> 0, spouseID |-> 0, birthDate |-> 0,
     parentsIds |-> <<>>, partnerId |-> 0, spouse |-> 0, children |-> <<>>]

\* [x, y].filter(Boolean): the non-empty ones, in order.
filterBoolean(xs) == SelectSeq(xs, LAMBDA x : x # 0)

\* The callback of rawPeople.map: null when id or name is empty, else the
\* row's fields plus parentsIds, partnerId and an empty children list.
toPersonIdOnly(row) ==
    IF row.id = 0 THEN null
    ELSE [id |-> row.id, name |-> row.name, fatherID |-> row.fatherID,
          motherID |-> row.motherID, spouseID |-> row.spouseID, birthDate |-> row.birthDate,
          parentsIds |-> filterBoolean(<<row.fatherID, row.motherID>>),
          partnerId |-> row.spouseID, spouse |-> 0, children |-> <<>>]
toPerson(row) ==
    IF row.id = 0 \/ row.name = "" THEN null
    ELSE [id |-> row.id, name |-> row.name, fatherID |-> row.fatherID,
          motherID |-> row.motherID, spouseID |-> row.spouseID, birthDate |-> row.birthDate,
          parentsIds |-> filterBoolean(<<row.fatherID, row.motherID>>),
          partnerId |-> row.spouseID, spouse |-> 0, children |-> <<>>]

\* validPeople: the mapped rows with the nulls filtered out.
validPeople(rawPeople) ==
    SelectSeq([i \in 1..Len(rawPeople) |-> toPerson(rawPeople[i])], LAMBDA p : p # null)

\* ----------------------------------------------------- Map<string, Person>
\* Index of key in the map, 0 when absent (Map.get gives undefined).
mapIndex(m, key) ==
    IF \E i \in 1..Len(m) : m[i].id = key THEN CHOOSE i \in 1..Len(m) : m[i].id = key ELSE 0

mapHas(m, key) == mapIndex(m, key) # 0
mapKeys(m) == { m[i].id : i \in 1..Len(m) }
mapGet(m, key) == m[mapIndex(m, key)]

\* Map.set: a present key keeps its place and takes the new value.
mapSet(m, p) ==
    IF mapHas(m, p.id) THEN [m EXCEPT ![mapIndex(m, p.id)] = p] ELSE Append(m, p)

\* people.forEach(p => peopleMap.set(p.id, {...p, children: []}))
RECURSIVE buildPeopleMap(_, _, _)
buildPeopleMap(people, i, m) ==
    IF i > Len(people) THEN m
    ELSE buildPeopleMap(people, i + 1, mapSet(m, [people[i] EXCEPT !.children = <<>>]))

\* ---------------------------------------------- spouse and child linking
\* if (person.partnerId) { spouse = peopleMap.get(partnerId); if (spouse) person.spouse = spouse }
linkSpouse(m, i) ==
    IF m[i].partnerId # 0 /\ mapHas(m, m[i].partnerId)
    THEN [m EXCEPT ![i].spouse = m[i].partnerId]
    ELSE m

\* if (!parent.children.some(child => child.id === person.id)) parent.children.push(person)
pushChildNoCheck(m, pi, childId) == [m EXCEPT ![pi].children = Append(@, childId)]
pushChild(m, pi, childId) ==
    IF \E k \in 1..Len(m[pi].children) : m[pi].children[k] = childId
    THEN m
    ELSE [m EXCEPT ![pi].children = Append(@, childId)]

\* One turn of person.parentsIds.forEach: st is [map, nonRoots].
attachToParentNoMark(st, i, parentId) ==
    LET pi == mapIndex(st.map, parentId) IN
    IF pi = 0 THEN st
    ELSE [map |-> pushChild(st.map, pi, st.map[i].id), nonRoots |-> st.nonRoots]
attachToParent(st, i, parentId) ==
    LET pi == mapIndex(st.map, parentId) IN
    IF pi = 0 THEN st
    ELSE [map |-> pushChild(st.map, pi, st.map[i].id),
          nonRoots |-> st.nonRoots \cup {st.map[i].id}]

RECURSIVE attachToParents(_, _, _)
attachToParents(st, i, k) ==
    IF k > Len(st.map[i].parentsIds) THEN st
    ELSE attachToParents(attachToParent(st, i, st.map[i].parentsIds[k]), i, k + 1)

\* peopleMap.forEach(person => { link spouse; link to parents }), from the
\* i-th entry on.
RECURSIVE linkPeople(_, _)
linkPeople(st, i) ==
    IF i > Len(st.map) THEN st
    ELSE linkPeople(attachToParents([st EXCEPT !.map = linkSpouse(st.map, i)], i, 1), i + 1)

\* ----------------------------------------------------- children.sort(...)
\* new Date(`${birthDate}T00:00:00`).getTime(): local midnight of day d, in ms.
getTime(d) == d * 86400000

\* The comparator of the source: an undated a sorts after b, whatever b is.
compareBirth(m, a, b) ==
    IF mapGet(m, a).birthDate = 0 THEN 1
    ELSE IF mapGet(m, b).birthDate = 0 THEN -1
    ELSE getTime(mapGet(m, a).birthDate) - getTime(mapGet(m, b).birthDate)

\* The comparator answers 1 both ways for two undated children, so it is not
\* a consistent comparator and ECMAScript leaves the order to the engine.
\* Two engines are modelled.  TimSort (V8) on an array shorter than its
\* minimum run: take the leading run, reversed when strictly descending,
\* then binary insertion, always asking compare(later, earlier).
RECURSIVE runEnd(_, _, _, _)
runEnd(m, a, desc, idx) ==
    IF idx > Len(a) THEN idx - 1
    ELSE LET order == compareBirth(m, a[idx], a[idx - 1]) IN
         IF (desc /\ order >= 0) \/ (~desc /\ order < 0) THEN idx - 1
         ELSE runEnd(m, a, desc, idx + 1)

reverseRange(a, n) == [i \in 1..Len(a) |-> IF i <= n THEN a[n + 1 - i] ELSE a[i]]

RECURSIVE binarySearch(_, _, _, _, _)
binarySearch(m, a, pivot, left, right) ==
    IF left >= right THEN left
    ELSE LET mid == left + ((right - left) \div 2) IN
         IF compareBirth(m, pivot, a[mid]) < 0
         THEN binarySearch(m, a, pivot, left, mid)
         ELSE binarySearch(m, a, pivot, mid + 1, right)

insertAt(a, from, to) ==
    [i \in 1..Len(a) |-> IF i < to \/ i > from THEN a[i]
                         ELSE IF i = to THEN a[from] ELSE a[i - 1]]

RECURSIVE binaryInsertionSort(_, _, _)
binaryInsertionSort(m, a, start) ==
    IF start > Len(a) THEN a
    ELSE binaryInsertionSort(m, insertAt(a, start, binarySearch(m, a, a[start], 1, start)),
                             start + 1)

timSort(m, a) ==
    LET desc == compareBirth(m, a[2], a[1]) < 0
        n    == runEnd(m, a, desc, 3)
    IN binaryInsertionSort(m, IF desc THEN reverseRange(a, n) ELSE a, n + 1)

\* Insertion sort (SpiderMonkey's sort of a short array): shift while
\* compare(earlier, item) > 0.
RECURSIVE insertionPoint(_, _, _, _)
insertionPoint(m, a, item, j) ==
    IF j >= 1 /\ compareBirth(m, a[j], item) > 0 THEN insertionPoint(m, a, item, j - 1)
    ELSE j + 1

RECURSIVE insertionSort(_, _, _)
insertionSort(m, a, i) ==
    IF i > Len(a) THEN a
    ELSE insertionSort(m, insertAt(a, i, insertionPoint(m, a, a[i], i - 1)), i + 1)

Engines == {"timsort", "insertion"}

sortByBirth(eng, m, a) == IF eng = "timsort" THEN timSort(m, a) ELSE insertionSort(m, a, 2)

\* peopleMap.forEach(person => { if (person.children.length > 1) person.children.sort(...) })
sortChildren(eng, m) ==
    [i \in 1..Len(m) |->
        IF Len(m[i].children) > 1
        THEN [m[i] EXCEPT !.children = sortByBirth(eng, m, m[i].children)]
        ELSE m[i]]

\* ------------------------------------------------------------ root selection
\* peopleMap.forEach(person => { if (!nonRoots.has(person.id)) rootList.push(person) })
rootList(m, nonRoots) ==
    SelectSeq([i \in 1..Len(m) |-> m[i].id], LAMBDA id : id \notin nonRoots)

\* rootList.filter: drop a candidate whose resolved spouse is a non-root.
keepAllRoots(m, nonRoots, candidates) == candidates
trueRootList(m, nonRoots, candidates) ==
    SelectSeq(candidates,
              LAMBDA id : ~(mapGet(m, id).spouse # 0 /\ mapGet(m, id).spouse \in nonRoots))

\* One turn of trueRootList.forEach: acc is [finalRoots, processedRoots].
dedupStepNoSpouse(m, acc, id) ==
    IF id \in acc.processedRoots THEN acc
    ELSE [finalRoots |-> Append(acc.finalRoots, id),
          processedRoots |-> acc.processedRoots \cup {id}]
dedupStep(m, acc, id) ==
    IF id \in acc.processedRoots THEN acc
    ELSE [finalRoots |-> Append(acc.finalRoots, id),
          processedRoots |-> acc.processedRoots \cup {id}
                             \cup (IF mapGet(m, id).spouse # 0 THEN {mapGet(m, id).spouse} ELSE {})]

RECURSIVE dedupRoots(_, _, _, _)
dedupRoots(m, list, k, acc) ==
    IF k > Len(list) THEN acc.finalRoots
    ELSE dedupRoots(m, list, k + 1, dedupStep(m, acc, list[k]))

\* The useMemo of the hook: { peopleMap, roots } of the people list.
useMemoGraph(eng, people) ==
    IF Len(people) = 0 THEN [peopleMap |-> <<>>, roots |-> <<>>]
    ELSE LET linked == linkPeople([map |-> buildPeopleMap(people, 1, <<>>), nonRoots |-> {}], 1)
             sorted == sortChildren(eng, linked.map)
             cands  == trueRootList(sorted, linked.nonRoots, rootList(sorted, linked.nonRoots))
         IN [peopleMap |-> sorted,
             roots     |-> dedupRoots(sorted, cands, 1, [finalRoots |-> <<>>, processedRoots |-> {}])]

\* ------------------------------------------- reveal effect: generations
\* nextGenerationMap.set(child.id, child) over the children of one person:
\* a Map keyed by id, so a child already present keeps its first place.
RECURSIVE addChildren(_, _, _)
addChildren(next, children, k) ==
    IF k > Len(children) THEN next
    ELSE addChildren(IF \E j \in 1..Len(next) : next[j] = children[k]
                     THEN next ELSE Append(next, children[k]),
                     children, k + 1)

RECURSIVE nextGeneration(_, _, _, _)
nextGeneration(m, current, i, next) ==
    IF i > Len(current) THEN next
    ELSE nextGeneration(m, current, i + 1, addChildren(next, mapGet(m, current[i]).children, 1))

\* while (currentGeneration.length > 0) { generations.push(...); ... }.  Each
\* level is a function of the one before, so the loop never ends exactly when
\* a level comes back; the result then carries diverges = TRUE.
RECURSIVE buildGenerations(_, _, _)
rootsOnly(m, current, gens) == [diverges |-> FALSE, generations |-> <<current>>]
buildGenerations(m, current, gens) ==
    IF Len(current) = 0 THEN [diverges |-> FALSE, generations |-> gens]
    ELSE IF \E g \in 1..Len(gens) : gens[g] = current
         THEN [diverges |-> TRUE, generations |-> gens]
         ELSE buildGenerations(m, nextGeneration(m, current, 1, <<>>), Append(gens, current))

\* --------------------------------------------------- reveal effect: actions
RevealPerson(id) == [type |-> "REVEAL_PEOPLE", ids |-> <<id>>, focusId |-> id]
RevealSpouse(id) == [type |-> "REVEAL_SPOUSES", ids |-> <<id>>, focusId |-> id]

\* The body of the inner loop for one person: acc is [actions, visited].
revealRepeated(m, acc, id) ==
    [actions |-> acc.actions \o <<RevealPerson(id)>>
                 \o (IF mapGet(m, id).spouse # 0 THEN <<RevealSpouse(id)>> ELSE <<>>),
     visited |-> acc.visited \cup {id}]
revealSpouseFirst(m, acc, id) ==
    IF id \in acc.visited THEN acc
    ELSE [actions |-> acc.actions
                      \o (IF mapGet(m, id).spouse # 0 THEN <<RevealSpouse(id)>> ELSE <<>>)
                      \o <<RevealPerson(id)>>,
          visited |-> acc.visited \cup {id}]
revealOne(m, acc, id) ==
    IF id \in acc.visited THEN acc
    ELSE [actions |-> acc.actions \o <<RevealPerson(id)>>
                      \o (IF mapGet(m, id).spouse # 0 THEN <<RevealSpouse(id)>> ELSE <<>>),
          visited |-> acc.visited \cup {id}]

RECURSIVE revealGeneration(_, _, _, _)
revealGeneration(m, generation, k, acc) ==
    IF k > Len(generation) THEN acc
    ELSE revealGeneration(m, generation, k + 1, revealOne(m, acc, generation[k]))

RECURSIVE buildActions(_, _, _, _)
buildActions(m, gens, g, acc) ==
    IF g > Len(gens) THEN acc.actions
    ELSE buildActions(m, gens, g + 1, revealGeneration(m, gens[g], 1, acc))

\* --------------------------------------------------------------- numbers
\* The viewport's numbers are exact fractions <<numerator, denominator>> in
\* lowest terms with a positive denominator; the rounding of the runtime's
\* floating point is left out.
abs(a) == IF a < 0 THEN -a ELSE a
RECURSIVE gcd(_, _)
gcd(a, b) == IF b = 0 THEN a ELSE gcd(b, a % b)
ratio(n, d) ==
    LET g == gcd(abs(n), abs(d))
        s == IF d < 0 THEN -1 ELSE 1
    IN <<(s * n) \div g, (s * d) \div g>>
num(n) == <<n, 1>>
plus(a, b) ==
    LET g == gcd(a[2], b[2])
    IN ratio(a[1] * (b[2] \div g) + b[1] * (a[2] \div g), (a[2] \div g) * b[2])
negative(a) == <<-a[1], a[2]>>
minus(a, b) == plus(a, negative(b))
times(a, b) ==
    LET g1 == gcd(abs(a[1]), b[2])
        g2 == gcd(abs(b[1]), a[2])
    IN ratio((a[1] \div g1) * (b[1] \div g2), (a[2] \div g2) * (b[2] \div g1))
over(a, b) == times(a, IF b[1] < 0 THEN <<-b[2], -b[1]>> ELSE <<b[2], b[1]>>)
lessThan(a, b) == a[1] * b[2] < b[1] * a[2]
mathMax(a, b) == IF lessThan(a, b) THEN b ELSE a
mathMin(a, b) == IF lessThan(b, a) THEN b ELSE a
\* Math.hypot, on the offsets whose hypotenuse is a whole number.
hypot(dx, dy) == CHOOSE r \in 0..(abs(dx) + abs(dy)) : r * r = dx * dx + dy * dy

\* --------------------------------------------------------------- viewport
\* The scale limits of the wheel, the pinch and the buttons.
minScale == ratio(2, 10)
maxScale == num(3)

\* Math.max(0.2, Math.min(newScale, 3))
unclamped(newScale) == newScale
clampScale(newScale) == mathMax(minScale, mathMin(newScale, maxScale))

\* The zoom of handleWheel and of the pinch: the content point under the
\* screen point keeps its place while the scale becomes the clamped newScale.
zoomAbout(v, point, newScale) ==
    LET contentPoint == [x |-> over(minus(point.x, v.pan.x), v.scale),
                         y |-> over(minus(point.y, v.pan.y), v.scale)]
        clampedScale == clampScale(newScale)
    IN [scale |-> clampedScale,
        pan |-> [x |-> minus(point.x, times(contentPoint.x, clampedScale)),
                 y |-> minus(point.y, times(contentPoint.y, clampedScale))]]

\* handleWheel: e.deltaY > 0 zooms out by zoomFactor 0.1, else in.
zoomFactor == ratio(1, 10)
wheelScale(scale, deltaY) ==
    IF deltaY > 0 THEN times(scale, minus(num(1), zoomFactor))
    ELSE times(scale, plus(num(1), zoomFactor))
mousePointOf(e) == [x |-> num(e.clientX), y |-> num(e.clientY)]
wheel(v, e) == zoomAbout(v, mousePointOf(e), wheelScale(v.scale, e.deltaY))

\* The pinch branch of handleTouchMove, for touches t and the distance of
\* the previous touch event.
midpointOf(t) == [x |-> ratio(t[1].x + t[2].x, 2), y |-> ratio(t[1].y + t[2].y, 2)]
distanceOf(t) == hypot(t[1].x - t[2].x, t[1].y - t[2].y)
pinch(v, t, lastDistance) ==
    zoomAbout(v, midpointOf(t), times(v.scale, ratio(distanceOf(t), lastDistance)))

\* zoomIn and zoomOut: setScale alone.
buttonFactor == ratio(12, 10)
zoomInOf(v) == [v EXCEPT !.scale = mathMin(times(v.scale, buttonFactor), maxScale)]
zoomOutOf(v) == [v EXCEPT !.scale = mathMax(over(v.scale, buttonFactor), minScale)]

\* The width the details panel takes from the tree.
sidebarWidthOf(d, isSidebarVisible) ==
    IF isSidebarVisible /\ ~(d.innerWidth < 768) THEN 384 ELSE 0

\* panToTop: the tree fitted by height, never magnified, centred across and
\* 40 pixels from the top; nothing when a measure is still zero.
PADDING_FACTOR == ratio(95, 100)
TOP_PADDING == 40
panToTopOf(v, d, isSidebarVisible) ==
    LET containerWidth == d.container.width - sidebarWidthOf(d, isSidebarVisible)
        containerHeight == d.container.height
        contentWidth == d.content.width
        contentHeight == d.content.height
    IN IF contentWidth = 0 \/ containerWidth = 0 \/ contentHeight = 0 \/ containerHeight = 0
       THEN v
       ELSE LET scaleY == ratio(containerHeight, contentHeight)
                newScale == times(scaleY, PADDING_FACTOR)
                clampedScale == mathMax(minScale, mathMin(newScale, num(1)))
            IN [scale |-> clampedScale,
                pan |-> [x |-> over(minus(num(containerWidth),
                                          times(num(contentWidth), clampedScale)), num(2)),
                         y |-> num(TOP_PADDING)]]

\* panToPerson: the node's box is read from the screen and taken back to
\* content space with the current pan and scale, then centred at scale 1.
panToPersonOf(v, d, node, isSidebarVisible) ==
    LET nodeRectLeft == plus(v.pan.x, times(num(node.left), v.scale))
        nodeRectTop == plus(v.pan.y, times(num(node.top), v.scale))
        nodeUnscaledLeft == over(minus(nodeRectLeft, v.pan.x), v.scale)
        nodeUnscaledTop == over(minus(nodeRectTop, v.pan.y), v.scale)
        availableWidth == d.container.width - sidebarWidthOf(d, isSidebarVisible)
        availableHeight == d.container.height
        newScale == num(1)
    IN [scale |-> newScale,
        pan |-> [x |-> minus(ratio(availableWidth, 2),
                             times(plus(nodeUnscaledLeft, ratio(node.width, 2)), newScale)),
                 y |-> minus(ratio(availableHeight, 2),
                             times(plus(nodeUnscaledTop, ratio(node.height, 2)), newScale))]]

\* handleMinimapPan: the pan that scrolls the given fraction of the range
\* by which the scaled content exceeds the container.
handleMinimapPanOf(v, d, normalizedPosition) ==
    LET scaledContentWidth == times(num(d.content.width), v.scale)
        scaledContentHeight == times(num(d.content.height), v.scale)
        scrollableWidth == mathMax(num(0), minus(scaledContentWidth, num(d.container.width)))
        scrollableHeight == mathMax(num(0), minus(scaledContentHeight, num(d.container.height)))
    IN [v EXCEPT !.pan = [x |-> times(negative(normalizedPosition.x), scrollableWidth),
                          y |-> times(negative(normalizedPosition.y), scrollableHeight)]]

\* ---------------------------------------------------------------- minimap
\* The measured box of the minimap: w-48 h-10 less its padding and border.
minimapSize == [width |-> 174, height |-> 38]

\* mv is what the minimap is given: containerSize, contentSize, pan, scale.
minimapScale(mv) ==
    IF minimapSize.width = 0 \/ mv.contentSize.width = 0
       \/ minimapSize.width <= 0 \/ minimapSize.height <= 0
    THEN num(0)
    ELSE mathMin(ratio(minimapSize.width, mv.contentSize.width),
                 ratio(minimapSize.height, mv.contentSize.height))
minimapContentSize(mv) ==
    [width |-> times(num(mv.contentSize.width), minimapScale(mv)),
     height |-> times(num(mv.contentSize.height), minimapScale(mv))]

\* viewportStyle: the indicator's box inside the minimap's content.
viewportStyle(mv) ==
    [width |-> times(over(num(mv.containerSize.width), mv.scale), minimapScale(mv)),
     height |-> times(over(num(mv.containerSize.height), mv.scale), minimapScale(mv)),
     x |-> times(over(negative(mv.pan.x), mv.scale), minimapScale(mv)),
     y |-> times(over(negative(mv.pan.y), mv.scale), minimapScale(mv))]

\* handleInteraction for a pointer at click, measured from the corner of
\* the minimap's content: the clamped fractions given to onPan.
clamp01(a) == mathMax(num(0), mathMin(num(1), a))
handleInteraction(mv, click) ==
    [x |-> clamp01(over(click.x, minimapContentSize(mv).width)),
     y |-> clamp01(over(click.y, minimapContentSize(mv).height))]

\* handleMouseDown of the minimap: whether the pointer is on the content.
onMinimapContent(mv, click) ==
    ~(\/ lessThan(click.x, num(0)) \/ lessThan(minimapContentSize(mv).width, click.x)
      \/ lessThan(click.y, num(0)) \/ lessThan(minimapContentSize(mv).height, click.y))

\* ------------------------------------------------------------------ state
VARIABLES
    engine,                     \* the sort the JavaScript runtime ships
    sheet,                      \* the rows the data source answers with
    sheetUrl,                   \* useFamilyTree: the sheetUrl argument of the last render
    fetches,                    \* the urls of the fetches in flight, in the order of issue
    people, loading, error,     \* useFamilyTree: useState
    peopleMap, roots,           \* useFamilyTree: useMemo
    deepLink,                   \* the focusedPersonId parameter of the page's URL
    selectedPerson, focusedPersonId, highlightedIds,   \* App: useState
    refocus,                    \* the persons of handleNodeClick's pending timeouts
    visibleNodeIds, spouseVisibleFor,
    isInitialAnimationComplete, personToFocusForAnimation,
    anim,                       \* the closure of the running reveal effect
    hung,                       \* the page is stuck in a loop that never ends
    dom,                        \* the sizes the browser lays the page out with
    containerSize, contentSize, \* FamilyTree: useState, by the ResizeObserver
    measuring,                  \* the observer's timeout for the content is pending
    scale, pan, isPanning,      \* FamilyTree: useState
    rendered,                   \* the pan and scale of FamilyTree's last render
    frame,                      \* the callback requestAnimationFrame was given last
    lastPanPosition, lastPinchDistance,   \* FamilyTree: useRef
    touches,                    \* the fingers on the screen, as the last touch event listed them
    touchStartPos, hasMoved, lastTapInfo, tapTimeoutRef,   \* FamilyTree: useRef (taps)
    tapTimers,                  \* the timeouts set by single taps, by handle
    detailsShown,               \* the persons onShowDetails was called with
    now,                        \* Date.now(), in ms since the page was opened
    inputs                      \* how many moving or zooming inputs were given

hookVars == <<people, loading, error, peopleMap, roots, fetches>>
focusVars == <<selectedPerson, focusedPersonId, highlightedIds, refocus>>
appVars == <<selectedPerson, focusedPersonId, highlightedIds, refocus, visibleNodeIds,
             spouseVisibleFor,
             isInitialAnimationComplete, personToFocusForAnimation, anim, hung>>
viewVars == <<containerSize, contentSize, measuring, scale, pan, rendered, frame>>
touchVars == <<isPanning, lastPanPosition, lastPinchDistance, touches>>
tapVars == <<touchStartPos, hasMoved, lastTapInfo, tapTimeoutRef, tapTimers, detailsShown>>
treeVars == <<dom, viewVars, touchVars, tapVars, now, inputs>>
vars == <<engine, sheet, deepLink, sheetUrl, fetches, people, loading, error, peopleMap, roots,
          selectedPerson, focusedPersonId, highlightedIds, refocus, visibleNodeIds,
          spouseVisibleFor, isInitialAnimationComplete, personToFocusForAnimation, anim, hung,
          dom, containerSize, contentSize, measuring, scale, pan, isPanning,
          rendered, frame, lastPanPosition, lastPinchDistance, touches, touchStartPos, hasMoved,
          lastTapInfo, tapTimeoutRef, tapTimers, detailsShown, now, inputs>>

NoError == "null"
NoPerson == 0

\* The closure variables of one run of the reveal effect: its action list,
\* how many actions runAnimation has applied, isCancelled, whether the
\* timeout it awaits is pending, and whether runAnimation ran past its loop
\* into the block that marks the animation complete; and the closures of
\* earlier runs that still have a timeout pending.
NoAnimation ==
    [actions |-> <<>>, applied |-> 0, isCancelled |-> FALSE, timer |-> FALSE, finished |-> FALSE,
     stale |-> {}]

\* The App state the reveal effect and the handlers write, as one record.
appState ==
    [selectedPerson |-> selectedPerson, focusedPersonId |-> focusedPersonId, refocus |-> refocus,
     visibleNodeIds |-> visibleNodeIds, spouseVisibleFor |-> spouseVisibleFor,
     isInitialAnimationComplete |-> isInitialAnimationComplete,
     personToFocusForAnimation |-> personToFocusForAnimation,
     anim |-> anim, hung |-> hung]

seqToSet(xs) == { xs[i] : i \in 1..Len(xs) }

\* ------------------------------------------------------- highlightedIds effect
\* The ids collectDescendants visits from the persons of frontier.
RECURSIVE descendantsFrom(_, _, _)
descendantsFrom(m, frontier, seen) ==
    IF frontier \subseteq seen THEN seen
    ELSE LET new == frontier \ seen IN
         descendantsFrom(m, UNION { seqToSet(mapGet(m, x).children) : x \in new }, seen \cup new)

\* A recursion over children that comes back to a person it is still in
\* never returns: the call stack overflows and the call throws.
recursesForever(m, id) ==
    \E x \in descendantsFrom(m, {id}, {}) :
        x \in descendantsFrom(m, seqToSet(mapGet(m, x).children), {})

\* collectDescendants(person): the person and every descendant, each with
\* its resolved spouse.
collectNoSpouses(m, id) == descendantsFrom(m, {id}, {})
collectDescendants(m, id) ==
    LET ds == descendantsFrom(m, {id}, {}) IN
    ds \cup { mapGet(m, x).spouse : x \in { y \in ds : mapGet(m, y).spouse # 0 } }

\* A parent found in the lookup, with its resolved spouse.
parentAndSpouse(m, parentId) ==
    IF parentId # 0 /\ mapHas(m, parentId)
    THEN {parentId} \cup (IF mapGet(m, parentId).spouse # 0
                          THEN {mapGet(m, parentId).spouse} ELSE {})
    ELSE {}

\* The set the effect hands to setHighlightedIds.
idsToHighlight(m, focused) ==
    IF focused = 0 \/ Len(m) = 0 \/ ~mapHas(m, focused) THEN {}
    ELSE collectDescendants(m, focused)
         \cup parentAndSpouse(m, mapGet(m, focused).fatherID)
         \cup parentAndSpouse(m, mapGet(m, focused).motherID)

highlightThrows(m, focused) ==
    focused # 0 /\ Len(m) > 0 /\ mapHas(m, focused) /\ recursesForever(m, focused)

\* The state of the next render: the queued updates applied, then the
\* highlightedIds effect on the focus and the lookup of that render.  An
\* effect that throws, or a loop that never ends, leaves a dead page.
setAppState(s) ==
    /\ selectedPerson' = s.selectedPerson
    /\ focusedPersonId' = s.focusedPersonId
    /\ refocus' = s.refocus
    /\ visibleNodeIds' = s.visibleNodeIds
    /\ spouseVisibleFor' = s.spouseVisibleFor
    /\ isInitialAnimationComplete' = s.isInitialAnimationComplete
    /\ personToFocusForAnimation' = s.personToFocusForAnimation
    /\ anim' = s.anim
    /\ IF s.hung \/ highlightThrows(peopleMap', s.focusedPersonId)
       THEN hung' = TRUE /\ highlightedIds' = highlightedIds
       ELSE hung' = FALSE /\ highlightedIds' = idsToHighlight(peopleMap', s.focusedPersonId)

\* --------------------------------------------------- reveal effect: running
\* The body of runAnimation's loop for one action.
applyAction(s, action) ==
    [(IF action.type = "REVEAL_PEOPLE"
      THEN [s EXCEPT !.visibleNodeIds = @ \cup seqToSet(action.ids)]
      ELSE [s EXCEPT !.spouseVisibleFor = @ \cup seqToSet(action.ids)])
     EXCEPT !.personToFocusForAnimation = action.focusId]

\* The effect's cleanup: isCancelled = true; clearTimeout(timeoutId).
cleanupNothing(a) == a
cleanup(a) == [a EXCEPT !.isCancelled = TRUE, !.timer = FALSE]

\* The closure of a run without the closures before it, and the closures
\* that can still wake once run a is replaced by a new one.
closureOf(a) ==
    [actions |-> a.actions, applied |-> a.applied, isCancelled |-> a.isCancelled,
     timer |-> a.timer, finished |-> a.finished]
superseded(a) == (IF a.timer THEN {closureOf(a)} ELSE {}) \cup a.stale

\* setVisibleNodeIds(allIds); setSpouseVisibleFor(allIds); setIsInitialAnimationComplete(true)
revealAll(s, m) ==
    [s EXCEPT !.visibleNodeIds = mapKeys(m), !.spouseVisibleFor = mapKeys(m),
              !.isInitialAnimationComplete = TRUE]

\* One run of the reveal effect after a render in which one of its
\* dependencies changed: the previous run's cleanup, then the body.  The
\* first turn of runAnimation's loop runs inside the effect, up to its await.
revealEffect(s, l, e, r, m) ==
    LET c == [s EXCEPT !.anim = cleanup(@)] IN
    IF l \/ e # NoError \/ Len(r) = 0 \/ s.isInitialAnimationComplete
    THEN IF ~l /\ e = NoError /\ ~s.isInitialAnimationComplete /\ Len(m) > 0
         THEN revealAll(c, m)
         ELSE c
    ELSE LET g == buildGenerations(m, r, <<>>) IN
         IF g.diverges THEN [c EXCEPT !.hung = TRUE]
         ELSE LET acts == buildActions(m, g.generations, 1, [actions |-> <<>>, visited |-> {}]) IN
              [applyAction(c, acts[1])
               EXCEPT !.anim = [actions |-> acts, applied |-> 1, isCancelled |-> FALSE,
                                timer |-> TRUE, finished |-> FALSE,
                                stale |-> superseded(c.anim)]]

\* ----------------------------------------------------------- displayedRoots
\* buildDescendantTree(person): a fresh object per visit, {...person,
\* children: fullChildren}; its children are such objects, its other fields
\* (the spouse reference too) are those of the lookup Person.
RECURSIVE buildDescendantTree(_, _)
buildDescendantTree(m, id) ==
    LET person == mapGet(m, id) IN
    [person EXCEPT !.children =
        [k \in 1..Len(person.children) |-> buildDescendantTree(m, person.children[k])]]

\* father / mother of the focused person as found in the lookup, 0 if none.
lookupParent(m, parentId) == IF parentId # 0 /\ mapHas(m, parentId) THEN parentId ELSE 0

\* { ...parent, children: [focusedPersonWithDescendants], spouse: undefined }
\* and, with both parents, the spouse set to the other clone.  The other
\* clone is held in the spouse field with its own spouse naming the first.
parentClone(m, parentId, sub, otherId) ==
    [mapGet(m, parentId) EXCEPT
        !.children = <<sub>>,
        !.spouse = IF otherId = 0 THEN [clone |-> FALSE]
                   ELSE [clone |-> TRUE,
                         person |-> [mapGet(m, otherId) EXCEPT
                                        !.children = <<sub>>,
                                        !.spouse = [clone |-> TRUE, cloneOf |-> parentId]]]]

\* The useMemo of displayedRoots: the root list itself without a focus,
\* else a list of fresh objects.
keepSiblings(m, r, focused) ==
    IF focused = 0 THEN [cloned |-> FALSE, list |-> r]
    ELSE IF ~mapHas(m, focused) THEN [cloned |-> TRUE, list |-> <<>>]
    ELSE LET father == lookupParent(m, mapGet(m, focused).fatherID)
             mother == lookupParent(m, mapGet(m, focused).motherID)
             sub    == buildDescendantTree(m, focused)
             whole(c) == [c EXCEPT !.children = buildDescendantTree(m, c.id).children]
         IN [cloned |-> TRUE,
             list |-> IF father = 0 /\ mother = 0 THEN <<sub>>
                      ELSE IF father # 0 THEN <<whole(parentClone(m, father, sub, mother))>>
                      ELSE <<whole(parentClone(m, mother, sub, 0))>>]
displayedRoots(m, r, focused) ==
    IF focused = 0 THEN [cloned |-> FALSE, list |-> r]
    ELSE IF ~mapHas(m, focused) THEN [cloned |-> TRUE, list |-> <<>>]
    ELSE LET sub    == buildDescendantTree(m, focused)
             father == lookupParent(m, mapGet(m, focused).fatherID)
             mother == lookupParent(m, mapGet(m, focused).motherID)
         IN [cloned |-> TRUE,
             list |-> IF father = 0 /\ mother = 0 THEN <<sub>>
                      ELSE IF father # 0 THEN <<parentClone(m, father, sub, mother)>>
                      ELSE <<parentClone(m, mother, sub, 0)>>]

\* The lookup after a render computed displayedRoots: every object the
\* computation writes is one it created, so no lookup Person is written.
pruneInPlace(m, focused) ==
    IF focused = 0 \/ ~mapHas(m, focused) THEN m
    ELSE LET father == lookupParent(m, mapGet(m, focused).fatherID)
             mother == lookupParent(m, mapGet(m, focused).motherID)
         IN [k \in 1..Len(m) |->
               IF m[k].id # 0 /\ m[k].id \in {father, mother}
               THEN [m[k] EXCEPT !.children = <<focused>>,
                                 !.spouse = IF father # 0 /\ mother # 0
                                            THEN (IF m[k].id = father THEN mother ELSE father)
                                            ELSE 0]
               ELSE m[k]]
lookupAfterRender(m, focused) == m

\* ------------------------------------------------------- deep-link effect
\* handleNodeClick(person) as created by the render whose state is s: the
\* updates it queues, and the person of the timeout it sets.
handleNodeClickWith(s, m, id, selectedThen) ==
    IF ~mapHas(m, id) \/ selectedThen = id THEN s
    ELSE IF selectedThen # NoPerson
         THEN [s EXCEPT !.selectedPerson = NoPerson, !.focusedPersonId = NoPerson,
                        !.refocus = Append(@, id)]
         ELSE [s EXCEPT !.selectedPerson = id, !.focusedPersonId = id]
handleNodeClickOn(s, m, id) == handleNodeClickWith(s, m, id, s.selectedPerson)

\* handleFocusToggle(person) as created by a render whose focusedPersonId and
\* selectedPerson were focusedThen and selectedThen.
handleFocusToggleOn(s, m, id, focusedThen, selectedThen) ==
    IF focusedThen = id
    THEN [s EXCEPT !.focusedPersonId = NoPerson, !.selectedPerson = NoPerson]
    ELSE handleNodeClickWith(s, m, id, selectedThen)

\* The condition under which the deep-link effect acts, in the render whose
\* state is s.
deepLinkFires(s, m) ==
    Len(m) > 0 /\ ~s.isInitialAnimationComplete /\ deepLink # 0 /\ mapHas(m, deepLink)

\* The effects of a commit whose render changed the lookup or
\* isInitialAnimationComplete, in the order the component declares them:
\* the deep-link effect, then the reveal effect.  Both read the state of
\* that render (s) and queue their updates; a set to all ids followed by the
\* reveal's add of some ids leaves all ids.  When the queued updates change
\* isInitialAnimationComplete, the render that follows runs the reveal
\* effect once more (its cleanup, then its guard).
effects(s, l, e, r, m) ==
    LET rv == revealEffect(s, l, e, r, m)
        q  == IF deepLinkFires(s, m)
              THEN [handleNodeClickOn(rv, m, deepLink)
                    EXCEPT !.visibleNodeIds = mapKeys(m), !.spouseVisibleFor = mapKeys(m),
                           !.isInitialAnimationComplete = TRUE]
              ELSE rv
    IN IF rv.hung THEN rv
       ELSE IF q.isInitialAnimationComplete # s.isInitialAnimationComplete
            THEN revealEffect(q, l, e, r, m)
            ELSE q

\* -------------------------------------------------------- viewport inputs
\* What the page measures: the tree's container, the laid out content and
\* the window, the same through one run.
\* The boxes of person nodes inside the content.
Nodes == {[left |-> 64, top |-> 0, width |-> 160, height |-> 200],
          [left |-> 900, top |-> 1400, width |-> 160, height |-> 200]}
WideTree ==
    [container |-> [width |-> 800, height |-> 600],
     content |-> [width |-> 2000, height |-> 3000], innerWidth |-> 1024, nodes |-> Nodes]
SmallTree == [WideTree EXCEPT !.content = [width |-> 400, height |-> 300]]
Doms == {WideTree, SmallTree}
\* A phone held upright.
TapTree ==
    [container |-> [width |-> 400, height |-> 700],
     content |-> [width |-> 600, height |-> 500], innerWidth |-> 400, nodes |-> Nodes]
\* A tree whose container has no size and whose persons are not drawn.
UnmeasuredTree ==
    [container |-> [width |-> 0, height |-> 0],
     content |-> [width |-> 0, height |-> 0], innerWidth |-> 1024, nodes |-> {}]
\* requestAnimationFrame's callback and handle; the handles take two values
\* in turn here and grow without end in the browser.
NoFrame == [callback |-> "none", handle |-> 0]
\* The double-tap window, the tap threshold in pixels, and the step of the clock.
DOUBLE_TAP_DELAY == 300
tapThreshold == 10
TimeStep == DOUBLE_TAP_DELAY \div 3
\* Pointer events, measured from the container's corner.
Points == {[x |-> 0, y |-> 0], [x |-> 400, y |-> 300]}
WheelEvents == {[clientX |-> p.x, clientY |-> p.y, deltaY |-> dy] : p \in Points, dy \in {-100, 100}}
Movements == {[x |-> 10, y |-> -5]}
\* The touches of a touch event: none, one finger, or two fingers 50 or 200
\* pixels apart around the same midpoint.
Pinches == { <<[x |-> 400 - h, y |-> 300], [x |-> 400 + h, y |-> 300]>> : h \in {25, 100} }
Touches == {<<>>} \cup {<<p>> : p \in Points} \cup Pinches

\* ------------------------------------------------------------------- actions
\* The sheets the application is run on, and those the graph builder alone
\* is run on.
Sheets == Genealogy(MaxCast, TRUE) \cup MultiPathSheets
BuildSheets ==
    Genealogy(MaxId, FALSE) \cup Sheets \cup SpouseSheets(MaxId) \cup RawSheets \cup SiblingSheets

InitState ==
    /\ engine \in Engines
    /\ sheetUrl = 1 /\ fetches = <<sheetUrl>>
    /\ people = <<>> /\ loading = TRUE /\ error = NoError
    /\ peopleMap = <<>> /\ roots = <<>>
    /\ selectedPerson = NoPerson /\ focusedPersonId = NoPerson
    /\ highlightedIds = {} /\ refocus = <<>>
    /\ visibleNodeIds = {} /\ spouseVisibleFor = {}
    /\ isInitialAnimationComplete = FALSE /\ personToFocusForAnimation = NoPerson
    /\ anim = NoAnimation /\ hung = FALSE
    /\ containerSize = [width |-> 0, height |-> 0]
    /\ contentSize = [width |-> 0, height |-> 0] /\ measuring = FALSE
    /\ scale = num(1) /\ pan = [x |-> num(0), y |-> num(0)] /\ isPanning = FALSE
    /\ rendered = [scale |-> scale, pan |-> pan] /\ frame = NoFrame
    /\ lastPanPosition = <<>> /\ lastPinchDistance = 0 /\ inputs = 0
    /\ touches = <<>> /\ touchStartPos = <<>> /\ hasMoved = FALSE /\ lastTapInfo = <<>>
    /\ tapTimeoutRef = 0 /\ tapTimers = <<>> /\ detailsShown = <<>> /\ now = 0

\* The page is opened without a focusedPersonId parameter or with the id of
\* the second person of the sheet.
DeepLinks == {0, 2}

Init == sheet \in Sheets /\ deepLink \in DeepLinks /\ dom = WideTree /\ InitState
InitBuild == sheet \in BuildSheets /\ deepLink = 0 /\ dom = WideTree /\ InitState

\* fetchData's response is parsed without error: processData sets people,
\* then loading goes false; the hook's useMemo rebuilds the graph.
loadRows ==
    /\ loading /\ ~hung
    /\ people' = validPeople(sheet)
    /\ error' = NoError
    /\ loading' = FALSE
    /\ fetches' = <<>>
    /\ LET g == useMemoGraph(engine, people') IN peopleMap' = g.peopleMap /\ roots' = g.roots
    /\ UNCHANGED <<treeVars, engine, sheet, deepLink, sheetUrl>>

\* The hook alone: the graph of a sheet, with no App around it.
BuildGraph == loadRows /\ UNCHANGED appVars

\* The dataset embedded in the page and handed to the hook as fallbackCsv.
fallbackData ==
    <<Row(1, "n", 0, 0, 2, 1950), Row(2, "n", 0, 0, 1, 1952), Row(3, "n", 1, 2, 4, 1975),
      Row(4, "n", 0, 0, 3, 1976), Row(5, "n", 3, 4, 0, 2000)>>

\* The messages of the errors fetchData and processData throw.
NotOkMessage == "Could not load data from the URL (Status: 404)."
HtmlMessage == "Invalid data format. Expected CSV data but received an HTML page."
ParseMessage == "Failed to parse data. CSV Parsing Error: Quoted field unterminated"
UnknownMessage == "An unknown error occurred while fetching data."
RejectMessages == {"Failed to fetch", ""}

\* A load that fails: the catch block sets the error and an empty list of
\* people, the finally block ends the loading.
failWith(message) ==
    /\ error' = message
    /\ people' = <<>>
    /\ loading' = FALSE
    /\ fetches' = <<>>
    /\ LET g == useMemoGraph(engine, people') IN peopleMap' = g.peopleMap /\ roots' = g.roots
    /\ UNCHANGED <<treeVars, engine, sheet, deepLink, sheetUrl, appVars>>

\* fetch rejects; the response is not OK; the response is an HTML page;
\* Papa.parse reports errors in the text.
fetchRejects ==
    /\ loading /\ ~hung
    /\ \E m \in RejectMessages : failWith(IF m = "" THEN UnknownMessage ELSE m)
responseNotOk == loading /\ ~hung /\ failWith(NotOkMessage)
responseIsHtml == loading /\ ~hung /\ failWith(HtmlMessage)
parseFails == loading /\ ~hung /\ failWith(ParseMessage)

\* The load as the App sees it: the render that follows runs the reveal effect.
Load == loadRows /\ setAppState(effects(appState, loading', error', roots', peopleMap'))

\* A timeout of runAnimation fires, in the closure of the latest run of the
\* effect or in one of an earlier run: the next turn of its loop, or its end.
runAnimation ==
    /\ ~hung
    /\ UNCHANGED <<treeVars, engine, sheet, deepLink, sheetUrl, hookVars>>
    /\ \E a \in {c \in {closureOf(anim)} \cup anim.stale : c.timer} :
          IF a = closureOf(anim) /\ anim.timer
          THEN IF anim.isCancelled THEN setAppState([appState EXCEPT !.anim.timer = FALSE])
               ELSE IF anim.applied < Len(anim.actions)
               THEN setAppState([applyAction(appState, anim.actions[anim.applied + 1])
                                 EXCEPT !.anim.applied = @ + 1])
               ELSE setAppState(effects(
                        [appState EXCEPT !.isInitialAnimationComplete = TRUE,
                                         !.personToFocusForAnimation = NoPerson,
                                         !.anim.timer = FALSE, !.anim.finished = TRUE],
                        loading, error, roots, peopleMap))
          ELSE IF a.isCancelled THEN setAppState([appState EXCEPT !.anim.stale = @ \ {a}])
               ELSE IF a.applied < Len(a.actions)
               THEN setAppState([applyAction(appState, a.actions[a.applied + 1])
                                 EXCEPT !.anim.stale = (@ \ {a}) \cup {[a EXCEPT !.applied = @ + 1]}])
               ELSE setAppState(effects(
                        [appState EXCEPT !.isInitialAnimationComplete = TRUE,
                                         !.personToFocusForAnimation = NoPerson,
                                         !.anim.stale = @ \ {a}],
                        loading, error, roots, peopleMap))

\* The Skip button, shown while isAnimating && !loading && !error.
handleSkipAnimation ==
    /\ ~isInitialAnimationComplete /\ ~loading /\ error = NoError /\ ~hung
    /\ UNCHANGED <<treeVars, engine, sheet, deepLink, sheetUrl, hookVars>>
    /\ setAppState(effects(
           [appState EXCEPT !.visibleNodeIds = mapKeys(peopleMap),
                            !.spouseVisibleFor = mapKeys(peopleMap),
                            !.personToFocusForAnimation = NoPerson,
                            !.isInitialAnimationComplete = TRUE],
           loading, error, roots, peopleMap))

\* The Reset View button: the focus and the selection are dropped, and with
\* a lookup the reveal starts over.  The deep-link and reveal effects run
\* again only when isInitialAnimationComplete changes, that is when it was
\* true.
handleClearFocus ==
    /\ ~hung
    /\ UNCHANGED <<treeVars, engine, sheet, deepLink, sheetUrl, hookVars>>
    /\ LET u == [appState EXCEPT !.focusedPersonId = NoPerson, !.selectedPerson = NoPerson]
           s == IF Len(peopleMap) > 0
                THEN [u EXCEPT !.visibleNodeIds = {}, !.spouseVisibleFor = {},
                               !.isInitialAnimationComplete = FALSE,
                               !.personToFocusForAnimation = NoPerson]
                ELSE u
       IN setAppState(IF s.isInitialAnimationComplete # isInitialAnimationComplete
                      THEN effects(s, loading, error, roots, peopleMap)
                      ELSE s)

\* ------------------------------------------------------------ focus actions
\* The ids of the persons drawn for a root list: each node of the forest
\* and the spouse drawn beside it.
displayedIds(m, r, focused) ==
    IF focused = 0
    THEN LET ds == descendantsFrom(m, seqToSet(r), {}) IN
         ds \cup { mapGet(m, x).spouse : x \in { y \in ds : mapGet(m, y).spouse # 0 } }
    ELSE idsToHighlight(m, focused)

\* The render after a handler of the focus: displayedRoots is recomputed
\* (writing what lookupAfterRender says), then the highlightedIds effect runs.
renderFocus(s) ==
    /\ UNCHANGED <<treeVars, engine, sheet, deepLink, sheetUrl, people, loading, error, roots,
                   fetches>>
    /\ peopleMap' = (IF highlightThrows(peopleMap, s.focusedPersonId) THEN peopleMap
                     ELSE lookupAfterRender(peopleMap, s.focusedPersonId))
    /\ setAppState(s)

\* A search result or a link of the details panel is clicked
\* (handleNodeClick), or details are asked for on a drawn person
\* (handleShowDetails, which calls it).
handleNodeClick ==
    /\ ~hung
    /\ \E id \in mapKeys(peopleMap) :
          /\ Len(handleNodeClickOn(appState, peopleMap, id).refocus) <= MaxPending
          /\ renderFocus(handleNodeClickOn(appState, peopleMap, id))

\* The timeout set by handleNodeClick fires.
refocusTimeout ==
    /\ ~hung /\ Len(refocus) > 0
    /\ renderFocus([appState EXCEPT !.selectedPerson = Head(refocus),
                                    !.focusedPersonId = Head(refocus),
                                    !.refocus = Tail(refocus)])

\* The focus action of a drawn person.
handleFocusToggle ==
    /\ ~hung /\ ~loading /\ error = NoError
    /\ \E id \in displayedIds(peopleMap, roots, focusedPersonId) :
          /\ Len(handleNodeClickOn(appState, peopleMap, id).refocus) <= MaxPending
          /\ renderFocus(IF focusedPersonId = id
                         THEN [appState EXCEPT !.focusedPersonId = NoPerson,
                                               !.selectedPerson = NoPerson]
                         ELSE handleNodeClickOn(appState, peopleMap, id))

\* The details panel is closed.
handleCloseDetails ==
    /\ ~hung /\ selectedPerson # NoPerson
    /\ renderFocus([appState EXCEPT !.selectedPerson = NoPerson])

Next == Load \/ runAnimation \/ handleSkipAnimation \/ handleClearFocus
Spec == Init /\ [][Next]_vars

NextBuild == BuildGraph
SpecBuild == InitBuild /\ [][NextBuild]_vars

\* The hook on a data source that answers or fails.
InitLoad == sheet \in Sheets /\ deepLink = 0 /\ dom = WideTree /\ InitState
NextLoad == BuildGraph \/ fetchRejects \/ responseNotOk \/ responseIsHtml \/ parseFails
SpecLoad == InitLoad /\ [][NextLoad]_vars

\* ------------------------------------------------------ sheetUrl changes
\* The data sources the hook is pointed at: the first answers with the sheet,
\* the second with another sheet, the third with status 404.
Urls == 1..3
OtherSheet == <<Row(4, "n", 0, 0, 0, 0)>>
answers(u) == u # 3
sheetAt(u) == IF u = 1 THEN sheet ELSE OtherSheet

dropFetch(k) == [i \in 1..(Len(fetches) - 1) |-> IF i < k THEN fetches[i] ELSE fetches[i + 1]]

\* The hook is rendered with another sheetUrl: the effect runs again (it
\* returns no cleanup) and fetchData sets loading, clears the error and
\* issues its fetch.
fetchData ==
    /\ Len(fetches) < MaxFetches
    /\ \E u \in Urls \ {sheetUrl} :
          /\ sheetUrl' = u
          /\ fetches' = Append(fetches, u)
    /\ loading' = TRUE /\ error' = NoError
    /\ UNCHANGED <<people, peopleMap, roots, treeVars, engine, sheet, deepLink, appVars>>

\* The response of a fetch in flight arrives and is parsed: processData sets
\* the people and clears the error, the finally block ends the loading.
responseArrives ==
    \E k \in 1..Len(fetches) :
        /\ answers(fetches[k])
        /\ people' = validPeople(sheetAt(fetches[k]))
        /\ error' = NoError /\ loading' = FALSE
        /\ fetches' = dropFetch(k)
        /\ LET g == useMemoGraph(engine, people') IN peopleMap' = g.peopleMap /\ roots' = g.roots
        /\ UNCHANGED <<treeVars, engine, sheet, deepLink, sheetUrl, appVars>>

\* The response of a fetch in flight is not OK: the catch block sets the
\* error and empties the people, the finally block ends the loading.
responseRefused ==
    \E k \in 1..Len(fetches) :
        /\ ~answers(fetches[k])
        /\ people' = <<>>
        /\ error' = NotOkMessage /\ loading' = FALSE
        /\ fetches' = dropFetch(k)
        /\ LET g == useMemoGraph(engine, people') IN peopleMap' = g.peopleMap /\ roots' = g.roots
        /\ UNCHANGED <<treeVars, engine, sheet, deepLink, sheetUrl, appVars>>

InitUrl == sheet \in SiblingSheets /\ deepLink = 0 /\ dom = WideTree /\ InitState
NextUrl == fetchData \/ responseArrives \/ responseRefused
SpecUrl == InitUrl /\ [][NextUrl]_vars

\* The focus handlers on a loaded tree, the reveal left where the load put it.
InitFocus == sheet \in Sheets /\ deepLink = 0 /\ dom = WideTree /\ InitState
NextFocus ==
    Load \/ handleNodeClick \/ refocusTimeout \/ handleFocusToggle \/ handleCloseDetails
SpecFocus == InitFocus /\ [][NextFocus]_vars

\* ------------------------------------------------------- viewport actions
view == [scale |-> scale, pan |-> pan]
\* The updates of a handler, with the render that follows it: the handlers of
\* that render close over the new pan and scale.
setView(v) == scale' = v.scale /\ pan' = v.pan /\ rendered' = v
\* The updates of a wheel, move or drag event: they are queued and applied,
\* the render that hands them to the handlers comes later.
queueView(v) == scale' = v.scale /\ pan' = v.pan /\ UNCHANGED rendered
isSidebarVisible == selectedPerson # NoPerson
minimapViewport ==
    [containerSize |-> containerSize, contentSize |-> contentSize,
     pan |-> rendered.pan, scale |-> rendered.scale]

\* FamilyTree is rendered, and so is the minimap.
mounted ==
    /\ ~loading /\ error = NoError /\ ~hung
    /\ displayedRoots(peopleMap, roots, focusedPersonId).list # <<>>
minimapShown == mounted /\ contentSize.width > 0

sizeVars == <<containerSize, contentSize, measuring>>
pageVars == <<dom, engine, sheet, deepLink, sheetUrl>>
stillVars == <<pageVars, now, hookVars, appVars>>

\* The scheduled render of FamilyTree with the queued pan and scale.
render ==
    /\ rendered # view /\ rendered' = view
    /\ UNCHANGED <<scale, pan, frame, sizeVars, touchVars, tapVars, inputs, stillVars>>

\* The ResizeObserver reports the container and asks for the content's size
\* in 100 ms.
resizeObserved ==
    /\ mounted /\ containerSize # dom.container
    /\ containerSize' = dom.container /\ measuring' = TRUE
    /\ UNCHANGED <<contentSize, scale, pan, rendered, frame, touchVars, tapVars, inputs,
                   stillVars>>
measureContent ==
    /\ mounted /\ measuring
    /\ contentSize' = dom.content /\ measuring' = FALSE
    /\ UNCHANGED <<containerSize, scale, pan, rendered, frame, touchVars, tapVars, inputs,
                   stillVars>>

\* An input that changes the view and nothing else, rendered at once or
\* queued; the inputs of one run are counted.
viewInput(v) ==
    /\ setView(v)
    /\ UNCHANGED <<frame, sizeVars, touchVars, tapVars, stillVars>>
viewQueued(v) ==
    /\ queueView(v)
    /\ UNCHANGED <<frame, sizeVars, touchVars, tapVars, stillVars>>
inputLimit == IF dom = TapTree THEN MaxTouches ELSE MaxInputs
counted == inputs < inputLimit /\ inputs' = inputs + 1

\* panToTop and panToPerson find nothing to measure: no update, and
\* requestAnimationFrame is given the same call again.
unmeasured(d, sidebar) ==
    \/ d.content.width = 0 \/ d.container.width - sidebarWidthOf(d, sidebar) = 0
    \/ d.content.height = 0 \/ d.container.height = 0
requestAnimationFrame(callback) ==
    /\ frame' = [callback |-> callback, handle |-> 1 - frame.handle]
    /\ UNCHANGED <<scale, pan, rendered, sizeVars, touchVars, tapVars, stillVars>>
frameDone ==
    /\ frame' = NoFrame
    /\ UNCHANGED <<scale, pan, rendered, sizeVars, touchVars, tapVars, stillVars>>

\* panToTop, by the window's resize or the timeout of the unfocused tree.
panToTop ==
    /\ mounted /\ focusedPersonId = NoPerson /\ counted
    /\ IF unmeasured(dom, isSidebarVisible)
       THEN requestAnimationFrame("panToTop")
       ELSE viewInput(panToTopOf(view, dom, isSidebarVisible))

\* panToPerson for the person the reveal or the focus points at.
panToPerson ==
    /\ mounted /\ {focusedPersonId, personToFocusForAnimation} # {NoPerson} /\ counted
    /\ IF dom.nodes = {}
       THEN requestAnimationFrame("panToPerson")
       ELSE \E node \in dom.nodes :
               viewInput(panToPersonOf(rendered, dom, node, isSidebarVisible))

\* The callback given to requestAnimationFrame runs: the same call again,
\* which returns at once when the refs of the tree are empty.
animationFrame ==
    /\ frame.callback # "none" /\ ~hung /\ UNCHANGED inputs
    /\ IF ~mounted THEN frameDone
       ELSE IF frame.callback = "panToTop"
       THEN IF unmeasured(dom, isSidebarVisible)
            THEN requestAnimationFrame("panToTop")
            ELSE /\ setView(panToTopOf(view, dom, isSidebarVisible))
                 /\ frame' = NoFrame
                 /\ UNCHANGED <<sizeVars, touchVars, tapVars, stillVars>>
       ELSE IF dom.nodes = {}
            THEN requestAnimationFrame("panToPerson")
            ELSE \E node \in dom.nodes :
                    /\ setView(panToPersonOf(rendered, dom, node, isSidebarVisible))
                    /\ frame' = NoFrame
                    /\ UNCHANGED <<sizeVars, touchVars, tapVars, stillVars>>

\* The pointers tried on the minimap: its content's corners and the corner
\* of the indicator.
MinimapClicks ==
    {[x |-> num(0), y |-> num(0)],
     [x |-> minimapContentSize(minimapViewport).width,
      y |-> minimapContentSize(minimapViewport).height],
     [x |-> viewportStyle(minimapViewport).x, y |-> viewportStyle(minimapViewport).y]}
\* handleMinimapPan closes over the scale of the render and sets the pan.
minimapPan(click) ==
    [view EXCEPT !.pan =
        handleMinimapPanOf(rendered, dom, handleInteraction(minimapViewport, click)).pan]
minimapMouseDown ==
    /\ minimapShown /\ counted
    /\ \E click \in MinimapClicks :
          /\ onMinimapContent(minimapViewport, click)
          /\ viewQueued(minimapPan(click))

\* handleWheel closes over the pan and the scale of the render.
handleWheel ==
    /\ mounted /\ counted
    /\ \E e \in WheelEvents : viewQueued(wheel(rendered, e))

zoomIn == mounted /\ counted /\ viewInput(zoomInOf(view))
zoomOut == mounted /\ counted /\ viewInput(zoomOutOf(view))

\* The mouse button goes down on the tree, and up or away.
handleMouseDown ==
    /\ mounted /\ ~isPanning /\ isPanning' = TRUE /\ counted
    /\ rendered' = view
    /\ UNCHANGED <<lastPanPosition, lastPinchDistance, touches, tapVars, sizeVars, scale, pan,
                   frame, stillVars>>
handleMouseUp ==
    /\ mounted /\ isPanning /\ isPanning' = FALSE /\ counted
    /\ rendered' = view
    /\ UNCHANGED <<lastPanPosition, lastPinchDistance, touches, tapVars, sizeVars, scale, pan,
                   frame, stillVars>>
\* setPan(prevPan => ...): the movement is added to the latest pan.
dragged(e) == [view EXCEPT !.pan = [x |-> plus(pan.x, num(e.x)), y |-> plus(pan.y, num(e.y))]]
handleMouseMove ==
    /\ mounted /\ isPanning /\ counted
    /\ \E e \in Movements : viewQueued(dragged(e))

\* ------------------------------------------------------------ touch handlers
\* clearTimeout(handle): a pending timeout is dropped, any other left alone.
keepTimeout(timers, h) == timers
clearTimeout(timers, h) ==
    [k \in 1..Len(timers) |->
        IF k = h /\ timers[k].status = "pending"
        THEN [timers[k] EXCEPT !.status = "cleared"] ELSE timers[k]]

\* The persons a finger can be lifted from: those drawn, and 0 for the
\* background.
tapTargets ==
    IF dom = TapTree THEN {0} \cup displayedIds(peopleMap, roots, focusedPersonId) ELSE {0}

\* The render after a callback of the App: displayedRoots, then the
\* highlightedIds effect.
appRendered(s) ==
    /\ peopleMap' = (IF highlightThrows(peopleMap, s.focusedPersonId) THEN peopleMap
                     ELSE lookupAfterRender(peopleMap, s.focusedPersonId))
    /\ setAppState(s)
    /\ UNCHANGED <<people, loading, error, roots, fetches>>

\* The touch events come with e.touches, the fingers on the screen: more
\* of them with a touchstart, as many with a touchmove, fewer with a touchend.
touchesDown == Len(touches)

touchStart(t) ==
    /\ isPanning' = TRUE /\ touches' = t
    /\ IF Len(t) = 1
       THEN /\ lastPanPosition' = <<t[1]>> /\ touchStartPos' = <<t[1]>> /\ hasMoved' = FALSE
            /\ UNCHANGED <<lastPinchDistance, tapTimeoutRef, tapTimers>>
       ELSE /\ lastPinchDistance' = distanceOf(t) /\ lastPanPosition' = <<>>
            /\ hasMoved' = TRUE
            /\ tapTimers' = (IF tapTimeoutRef # 0 THEN clearTimeout(tapTimers, tapTimeoutRef)
                             ELSE tapTimers)
            /\ tapTimeoutRef' = 0
            /\ UNCHANGED touchStartPos
    /\ rendered' = (IF isPanning THEN rendered ELSE view)
    /\ UNCHANGED <<lastTapInfo, detailsShown, scale, pan, frame, sizeVars, stillVars>>
handleTouchStart ==
    /\ mounted /\ counted
    /\ \E t \in Touches : Len(t) > touchesDown /\ touchStart(t)

\* The finger has gone further than the threshold from where it went down.
movedAway(t) ==
    /\ ~hasMoved /\ touchStartPos # <<>> /\ Len(t) = 1
    /\ hypot(t[1].x - touchStartPos[1].x, t[1].y - touchStartPos[1].y) > tapThreshold
touchMove(t) ==
    /\ hasMoved' = (hasMoved \/ movedAway(t)) /\ touches' = t
    /\ IF movedAway(t) /\ tapTimeoutRef # 0
       THEN /\ tapTimers' = clearTimeout(tapTimers, tapTimeoutRef)
            /\ tapTimeoutRef' = 0 /\ lastTapInfo' = <<>>
       ELSE UNCHANGED <<tapTimers, tapTimeoutRef, lastTapInfo>>
    /\ IF Len(t) = 1 /\ lastPanPosition # <<>>
       THEN /\ queueView([view EXCEPT !.pan =
                  [x |-> plus(pan.x, num(t[1].x - lastPanPosition[1].x)),
                   y |-> plus(pan.y, num(t[1].y - lastPanPosition[1].y))]])
            /\ lastPanPosition' = <<t[1]>> /\ UNCHANGED lastPinchDistance
       ELSE IF Len(t) = 2 /\ lastPinchDistance # 0
       THEN /\ queueView(pinch(rendered, t, lastPinchDistance))
            /\ lastPinchDistance' = distanceOf(t) /\ UNCHANGED lastPanPosition
       ELSE UNCHANGED <<scale, pan, rendered, lastPanPosition, lastPinchDistance>>
    /\ UNCHANGED <<isPanning, touchStartPos, detailsShown, frame, sizeVars, stillVars>>
handleTouchMove ==
    /\ mounted /\ counted
    /\ \E t \in Touches : Len(t) = touchesDown /\ Len(t) > 0 /\ touchMove(t)

\* One finger stays: panning goes on from where it is. None stays: the
\* interaction ends.
keepRefs(t) ==
    IF Len(t) = 1 THEN UNCHANGED <<lastPinchDistance, lastPanPosition, isPanning>>
    ELSE isPanning' = FALSE /\ lastPanPosition' = <<>> /\ lastPinchDistance' = 0
liftRefs(t) ==
    IF Len(t) = 1
    THEN lastPinchDistance' = 0 /\ lastPanPosition' = <<t[1]>> /\ UNCHANGED isPanning
    ELSE isPanning' = FALSE /\ lastPanPosition' = <<>> /\ lastPinchDistance' = 0

\* A finger is lifted from the element target; t is what stays down.
isDoubleTap(target) ==
    /\ lastTapInfo # <<>> /\ lastTapInfo[1].personId = target
    /\ now - lastTapInfo[1].time < DOUBLE_TAP_DELAY
isTap(target) == ~hasMoved /\ target # 0 /\ mapHas(peopleMap, target)
touchEnd(t, target) ==
    /\ IF isTap(target) /\ isDoubleTap(target)
       THEN /\ tapTimers' = (IF tapTimeoutRef # 0 THEN clearTimeout(tapTimers, tapTimeoutRef)
                             ELSE tapTimers)
            /\ detailsShown' = Append(detailsShown, target)
            /\ appRendered(handleNodeClickOn(appState, peopleMap, target))
            /\ lastTapInfo' = <<>> /\ tapTimeoutRef' = 0
       ELSE IF isTap(target)
       THEN /\ lastTapInfo' = <<[personId |-> target, time |-> now]>>
            /\ tapTimers' = Append(tapTimers,
                   [personId |-> target, due |-> now + DOUBLE_TAP_DELAY, status |-> "pending",
                    focusedThen |-> focusedPersonId, selectedThen |-> selectedPerson])
            /\ tapTimeoutRef' = Len(tapTimers')
            /\ UNCHANGED <<detailsShown, hookVars, appVars>>
       ELSE UNCHANGED <<lastTapInfo, tapTimers, tapTimeoutRef, detailsShown, hookVars, appVars>>
    /\ liftRefs(t) /\ touches' = t
    /\ rendered' = (IF Len(t) = 0 \/ (isTap(target) /\ isDoubleTap(target)) THEN view
                    ELSE rendered)
    /\ UNCHANGED <<touchStartPos, hasMoved, scale, pan, frame, sizeVars, pageVars, now>>
handleTouchEnd ==
    /\ mounted /\ counted
    /\ \E t \in Touches : \E target \in tapTargets : Len(t) < touchesDown /\ touchEnd(t, target)

\* The timeout of a single tap fires: onFocusPerson, which is the
\* handleFocusToggle of the render in which the finger was lifted.
tapTimeout ==
    /\ ~hung
    /\ \E h \in 1..Len(tapTimers) :
          /\ tapTimers[h].status = "pending" /\ tapTimers[h].due <= now
          /\ tapTimers' = [tapTimers EXCEPT ![h].status = "fired"]
          /\ lastTapInfo' = <<>>
          /\ appRendered(handleFocusToggleOn(appState, peopleMap, tapTimers[h].personId,
                                             tapTimers[h].focusedThen,
                                             tapTimers[h].selectedThen))
    /\ rendered' = view
    /\ UNCHANGED <<tapTimeoutRef, touchStartPos, hasMoved, detailsShown, touchVars, scale, pan,
                   frame, sizeVars, inputs, pageVars, now>>

\* Time passes, up to the next timeout that is due.
tick ==
    /\ now < MaxTicks * TimeStep
    /\ \A h \in 1..Len(tapTimers) : tapTimers[h].status = "pending" => tapTimers[h].due > now
    /\ now' = now + TimeStep
    /\ UNCHANGED <<viewVars, touchVars, tapVars, inputs, pageVars, hookVars, appVars>>

\* The viewport of a loaded tree of one family.
ViewSheet == <<Row(1, "n", 0, 0, 0, 0), Row(2, "n", 1, 0, 0, 0)>>
InitView ==
    /\ sheet = ViewSheet /\ deepLink = 0 /\ dom \in Doms
    /\ InitState /\ engine = "timsort"
NextView ==
    \/ Load \/ resizeObserved \/ measureContent \/ panToTop \/ panToPerson
    \/ minimapMouseDown \/ handleWheel \/ zoomIn \/ zoomOut
    \/ handleMouseDown \/ handleMouseUp \/ handleMouseMove
    \/ handleTouchStart \/ handleTouchMove \/ handleTouchEnd \/ render
SpecView == InitView /\ [][NextView]_vars

\* Taps and gestures on a phone, over the time of a few double-tap delays.
InitTap ==
    /\ sheet = ViewSheet /\ deepLink = 0 /\ dom = TapTree
    /\ InitState /\ engine = "timsort"
NextTap ==
    \/ Load \/ handleTouchStart \/ handleTouchMove \/ handleTouchEnd
    \/ tapTimeout \/ tick \/ render
SpecTap == InitTap /\ [][NextTap]_vars

\* A tree whose container or persons the page never gets to measure, next
\* to those it does; the browser runs every callback it was given.
InitRetry ==
    /\ sheet = ViewSheet /\ deepLink = 0 /\ dom \in Doms \cup {UnmeasuredTree}
    /\ InitState /\ engine = "timsort"
NextRetry ==
    \/ Load \/ resizeObserved \/ measureContent \/ panToTop \/ panToPerson \/ animationFrame
    \/ zoomIn \/ zoomOut
SpecRetry == InitRetry /\ [][NextRetry]_vars /\ WF_vars(animationFrame)

\* ===================================================================
\* Properties of the graph builder (checked under SpecBuild)
\* ===================================================================
loaded == ~loading

\* A row with both mandatory fields.
Accepted(row) == row.id # 0 /\ row.name # ""
AcceptedRows == { i \in 1..Len(sheet) : Accepted(sheet[i]) }
AcceptedIds == { sheet[i].id : i \in AcceptedRows }
DistinctAcceptedIds ==
    \A i, j \in AcceptedRows : i # j => sheet[i].id # sheet[j].id

\* The last accepted row carrying an id.
LastRowOf(id) ==
    CHOOSE i \in AcceptedRows :
        sheet[i].id = id /\ \A j \in AcceptedRows : sheet[j].id = id => j <= i

\* The lookup entries stored under an id.
EntriesOf(id) == { k \in 1..Len(peopleMap) : peopleMap[k].id = id }

\* C1 as stated: after a load the lookup holds exactly one Person per
\* accepted row, under that row's id, so its size is the number of accepted
\* rows.
C1_OnePersonPerAcceptedRow ==
    loaded =>
        /\ Len(peopleMap) = Cardinality(AcceptedRows)
        /\ \A i \in AcceptedRows : Cardinality(EntriesOf(sheet[i].id)) = 1

\* C1 amended: after a load the lookup holds exactly one Person per distinct
\* id of the accepted rows, stored under that id and carrying the fields of
\* the last accepted row with that id; a row without id or name adds no
\* entry; the size is the number of distinct accepted ids, which is the number
\* of accepted rows when no two of them share an id.
C1_OnePersonPerAcceptedId ==
    loaded =>
        /\ mapKeys(peopleMap) = AcceptedIds
        /\ Len(peopleMap) = Cardinality(AcceptedIds)
        /\ \A k \in 1..Len(peopleMap) :
              LET row == sheet[LastRowOf(peopleMap[k].id)] IN
              /\ peopleMap[k].name = row.name /\ peopleMap[k].name # ""
              /\ peopleMap[k].fatherID = row.fatherID
              /\ peopleMap[k].motherID = row.motherID
              /\ peopleMap[k].partnerId = row.spouseID
              /\ peopleMap[k].birthDate = row.birthDate
        /\ DistinctAcceptedIds => Len(peopleMap) = Cardinality(AcceptedRows)

\* A load with a row lacking its id, a row lacking its name and an accepted
\* row, which alone is in the lookup.
C1_Witness ==
    /\ loaded
    /\ \E i \in 1..Len(sheet) : sheet[i].id = 0
    /\ \E i \in 1..Len(sheet) : sheet[i].id # 0 /\ sheet[i].name = ""
    /\ Cardinality(AcceptedRows) = 1
    /\ Len(peopleMap) = 1

\* ----------------------------------------------------------------- roots
Persons == mapKeys(peopleMap)
person(id) == mapGet(peopleMap, id)
spouseOf(id) == person(id).spouse
childrenOf(id) == person(id).children
Roots == seqToSet(roots)

\* The person has a father or mother present in the lookup.
HasParentInLookup(id) ==
    \/ person(id).fatherID # 0 /\ person(id).fatherID \in Persons
    \/ person(id).motherID # 0 /\ person(id).motherID \in Persons

MutualSpouses(a, b) == a # b /\ spouseOf(a) = b /\ spouseOf(b) = a

C3_NoRootWithNonRootSpouse ==
    loaded => \A r \in Roots : spouseOf(r) # 0 => ~HasParentInLookup(spouseOf(r))

\* A parentless person whose resolved spouse has a parent in the lookup, and
\* who was dropped from the roots.
C3_Witness ==
    /\ loaded
    /\ \E y \in Persons :
          /\ ~HasParentInLookup(y) /\ spouseOf(y) # 0 /\ HasParentInLookup(spouseOf(y))
          /\ y \notin Roots /\ Roots # {}

\* C4: no children list holds the same id twice, also when a row names one
\* person as father and as mother.
C4_NoDuplicateChildren ==
    loaded =>
        \A p \in Persons :
            \A j, k \in 1..Len(childrenOf(p)) : j # k => childrenOf(p)[j] # childrenOf(p)[k]

\* A person whose row names the same lookup person as father and mother and
\* who is in that parent's children.
C4_Witness ==
    /\ loaded
    /\ \E c \in Persons :
          /\ person(c).fatherID # 0 /\ person(c).fatherID = person(c).motherID
          /\ person(c).fatherID \in Persons
          /\ c \in seqToSet(childrenOf(person(c).fatherID))

\* -------------------------------------------------------------- children
birthOf(id) == person(id).birthDate

\* The place of a person in the lookup: the order in which the linking loop
\* visits the persons and attaches them to their parents.
inputPlace(id) == mapIndex(peopleMap, id)

\* Dated children ascending, every undated child after every dated one.
DatedChildrenInOrder(p) ==
    \A j, k \in 1..Len(childrenOf(p)) :
        j < k =>
            LET a == childrenOf(p)[j]
                b == childrenOf(p)[k]
            IN /\ (birthOf(a) # 0 /\ birthOf(b) # 0) => birthOf(a) <= birthOf(b)
               /\ ~(birthOf(a) = 0 /\ birthOf(b) # 0)

\* Undated children in their attachment order.
UndatedChildrenStable(p) ==
    \A j, k \in 1..Len(childrenOf(p)) :
        (j < k /\ birthOf(childrenOf(p)[j]) = 0 /\ birthOf(childrenOf(p)[k]) = 0)
            => inputPlace(childrenOf(p)[j]) < inputPlace(childrenOf(p)[k])

\* C5: every children list is ascending by birth date, undated children come
\* after all dated ones, and undated children keep their input order.
C5_ChildrenSortedStable ==
    loaded => \A p \in Persons : DatedChildrenInOrder(p) /\ UndatedChildrenStable(p)

\* ---------------------------------------------------------------- forest
\* How many times x is drawn in the subtree walked from p through children
\* lists, d levels deep (the renderer draws a node per children entry).
RECURSIVE occurrencesUnder(_, _, _)
RECURSIVE occurrencesIn(_, _, _, _)
occurrencesUnder(p, x, d) ==
    (IF p = x THEN 1 ELSE 0)
    + (IF d = 0 THEN 0 ELSE occurrencesIn(childrenOf(p), 1, x, d - 1))
occurrencesIn(list, k, x, d) ==
    IF k > Len(list) THEN 0
    ELSE occurrencesUnder(list[k], x, d) + occurrencesIn(list, k + 1, x, d)

\* Occurrences of x in the forest walked from the root list.
Occurrences(x) == occurrencesIn(roots, 1, x, Len(peopleMap))

\* How many slots of a children list hold x.
SlotsIn(p, x) == Cardinality({ k \in 1..Len(childrenOf(p)) : childrenOf(p)[k] = x })

LookupParents(x) ==
    { p \in Persons : p # 0 /\ (p = person(x).fatherID \/ p = person(x).motherID) }

\* x has a parent in the lookup and is the resolved spouse of a parentless
\* person other than its own parents.
ChildAndSpouseOfParentless(x) ==
    /\ HasParentInLookup(x)
    /\ \E y \in Persons \ ({x} \cup LookupParents(x)) :
          ~HasParentInLookup(y) /\ spouseOf(y) = x

\* Sound kinship data: parents come before their children in the sheet (so
\* there is no cycle) and nobody is married to itself, a parent or a child.
SoundKinship ==
    \A x \in Persons :
        /\ \A p \in LookupParents(x) : inputPlace(p) < inputPlace(x)
        /\ spouseOf(x) # 0 =>
              /\ spouseOf(x) # x
              /\ spouseOf(x) \notin LookupParents(x)
              /\ x \notin LookupParents(spouseOf(x))

\* C6 as stated, already on sound kinship data: such a person is drawn
\* exactly once in the forest walked from the roots: never as a root and in
\* exactly one child slot.
C6_DrawnExactlyOnce ==
    (loaded /\ SoundKinship) =>
        \A x \in Persons :
            ChildAndSpouseOfParentless(x) => x \notin Roots /\ Occurrences(x) = 1

\* C6 amended: such a person is never a root entry and holds exactly one
\* slot in the children list of each of its parents present in the lookup,
\* and no slot in any other list; a parentless person whose resolved spouse
\* it is is no root either.  (In the walked forest it is drawn once under
\* every drawn occurrence of a parent: twice when both parents are drawn.)
C6_OneSlotPerParentNeverRoot ==
    loaded =>
        \A x \in Persons :
            ChildAndSpouseOfParentless(x) =>
                /\ x \notin Roots
                /\ \A p \in Persons :
                      SlotsIn(p, x) = (IF p \in LookupParents(x) THEN 1 ELSE 0)
                /\ \A y \in Persons : spouseOf(y) = x => y \notin Roots

\* Such a person with both parents in the lookup, drawn once, below the one
\* parent that is a root, while its parentless spouse was dropped.
C6_Witness ==
    /\ loaded
    /\ \E x \in Persons :
          /\ ChildAndSpouseOfParentless(x)
          /\ Cardinality(LookupParents(x)) = 2
          /\ Occurrences(x) = 1
          /\ \E y \in Persons \ {x} : ~HasParentInLookup(y) /\ spouseOf(y) = x /\ y \notin Roots

\* ===================================================================
\* Properties of the reveal sequence (checked under Spec)
\* ===================================================================
\* The action list of the latest run of the reveal effect that built one.
actionsBuilt == anim.actions # <<>>

PersonReveals(id) ==
    { k \in 1..Len(anim.actions) : anim.actions[k] = RevealPerson(id) }
SpouseReveals(id) ==
    { k \in 1..Len(anim.actions) : anim.actions[k] = RevealSpouse(id) }

\* The persons n children-steps below a root, and the least such n.
RECURSIVE Level(_)
Level(n) ==
    IF n = 0 THEN Roots
    ELSE UNION { seqToSet(childrenOf(p)) : p \in Level(n - 1) }
ReachableIds == UNION { Level(n) : n \in 0..Len(peopleMap) }
depthOf(x) ==
    CHOOSE n \in 0..Len(peopleMap) : x \in Level(n) /\ \A k \in 0..(n - 1) : x \notin Level(k)
revealPlace(x) == CHOOSE k \in PersonReveals(x) : TRUE

\* C7: in the action list no id has more than one reveal-person action, every
\* person reachable from the roots has exactly one, and it stands where the
\* person's earliest generation puts it: before the reveal of every person
\* first discovered in a later generation.
C7_OneRevealAtEarliestGeneration ==
    actionsBuilt =>
        /\ \A id \in Persons : Cardinality(PersonReveals(id)) <= 1
        /\ \A x \in ReachableIds : Cardinality(PersonReveals(x)) = 1
        /\ \A x, y \in ReachableIds :
              depthOf(x) < depthOf(y) => revealPlace(x) < revealPlace(y)

\* A person x discovered in two generations, with its one reveal-person
\* action, standing before that of a sibling y who is first discovered in
\* the later generation and listed there before x.
C7_Witness ==
    /\ actionsBuilt
    /\ \E x \in Level(1) \cap Level(2) :
          /\ Cardinality(PersonReveals(x)) = 1
          /\ \E y \in Level(2) \ Level(1) :
                /\ revealPlace(x) < revealPlace(y)
                /\ \E p \in Level(1) :
                      \E j, k \in 1..Len(childrenOf(p)) :
                          j < k /\ childrenOf(p)[j] = y /\ childrenOf(p)[k] = x

\* ----------------------------------------------------------- spouse reveals
\* runAnimation applies the next action of its list: a timeout fired in a
\* run that is neither cancelled nor past its last action.
appliesNext ==
    /\ anim.timer /\ ~anim.isCancelled /\ anim.applied < Len(anim.actions)
    /\ anim'.actions = anim.actions /\ anim'.applied = anim.applied + 1

SpouseRevealsInPlace ==
    actionsBuilt =>
        \A k \in 1..Len(anim.actions) :
            anim.actions[k].type = "REVEAL_SPOUSES" =>
                LET x == anim.actions[k].focusId IN
                /\ anim.actions[k] = RevealSpouse(x)
                /\ x \in Persons /\ spouseOf(x) # 0
                /\ k > 1 /\ anim.actions[k - 1] = RevealPerson(x)
                /\ Cardinality(SpouseReveals(x)) = 1

SpouseRevealFollowsPerson ==
    (appliesNext /\ anim.actions[anim.applied + 1].type = "REVEAL_SPOUSES") =>
        LET x == anim.actions[anim.applied + 1].focusId IN
        /\ anim.actions[anim.applied] = RevealPerson(x)
        /\ spouseOf(x) # 0
        /\ spouseVisibleFor' = spouseVisibleFor \cup {x}
        /\ visibleNodeIds' = visibleNodeIds

\* C8: a reveal-spouse action for X is in the list only if X has a resolved
\* spouse, once, and right after the reveal-person action for X; and when the
\* running animation applies it, the action it applied just before is the
\* reveal-person action for X.
C8_SpouseRevealRightAfterPerson ==
    []SpouseRevealsInPlace /\ [][SpouseRevealFollowsPerson]_vars

\* The animation has just applied the reveal-spouse action of a person with
\* a resolved spouse, the second action or a later one of its list.
C8_Witness ==
    /\ actionsBuilt /\ ~anim.isCancelled /\ anim.applied >= 2
    /\ anim.actions[anim.applied].type = "REVEAL_SPOUSES"
    /\ LET x == anim.actions[anim.applied].focusId IN
          /\ spouseOf(x) # 0
          /\ x \in spouseVisibleFor /\ x \in visibleNodeIds
          /\ \E y \in Persons : spouseOf(y) = 0 /\ PersonReveals(y) # {}

\* ------------------------------------------------------- the finished run
\* The ids the action list reveals as persons, and those it shows beside a
\* person as that person's spouse.
RevealedIds == { id \in Persons : PersonReveals(id) # {} }
ShownAsSpouse == { spouseOf(x) : x \in { id \in Persons : SpouseReveals(id) # {} } }

\* C9 as stated: when a reveal sequence has run to its end, the ids it made
\* visible (revealed as a person, or shown as the spouse beside one) are all
\* the lookup ids, and no id has two reveal-person actions.
C9_RevealsWholeLookup ==
    anim.finished =>
        /\ RevealedIds \cup ShownAsSpouse = Persons
        /\ \A id \in Persons : Cardinality(PersonReveals(id)) <= 1

\* A step of the running animation adds to the visible sets exactly the ids
\* of the action it applies.
AppliesOneAction ==
    appliesNext =>
        LET action == anim.actions[anim.applied + 1] IN
        IF action.type = "REVEAL_PEOPLE"
        THEN /\ visibleNodeIds' = visibleNodeIds \cup seqToSet(action.ids)
             /\ spouseVisibleFor' = spouseVisibleFor
        ELSE /\ spouseVisibleFor' = spouseVisibleFor \cup seqToSet(action.ids)
             /\ visibleNodeIds' = visibleNodeIds

FinishedRunRevealedForest ==
    anim.finished =>
        /\ anim.applied = Len(anim.actions)
        /\ RevealedIds = ReachableIds
        /\ \A id \in ReachableIds : Cardinality(PersonReveals(id)) = 1
        /\ { id \in Persons : SpouseReveals(id) # {} }
               = { id \in ReachableIds : spouseOf(id) # 0 }
        /\ visibleNodeIds \subseteq ReachableIds
        /\ spouseVisibleFor \subseteq ReachableIds

\* C9 amended: when a reveal sequence has run to its end, every action of its
\* list has been applied, one per step, and the ids it revealed as persons
\* are the ids reachable from the roots through children lists, each exactly
\* once; a lookup id outside that forest is revealed by no action (it is at
\* most shown beside a revealed person whose resolved spouse it is).
C9_RevealsForestOnce ==
    []FinishedRunRevealedForest /\ [][AppliesOneAction]_vars

\* A run that reached its end on a forest that holds a person found on two
\* paths and leaves a lookup person out, with every reachable id visible.
C9_Witness ==
    /\ anim.finished /\ isInitialAnimationComplete
    /\ visibleNodeIds = ReachableIds
    /\ Cardinality(ReachableIds) >= 2
    /\ Persons \ ReachableIds # {}

\* -------------------------------------------------------------------- skip
\* A reveal sequence is in progress: it has applied an action, awaits the
\* timeout before the next, and has not run to its end.
inProgress ==
    /\ actionsBuilt /\ anim.timer /\ ~anim.isCancelled /\ ~anim.finished
    /\ ~isInitialAnimationComplete

\* The step that handles Skip during a sequence: the animation becomes
\* complete without the sequence having run to its end.
skipsInProgress ==
    inProgress /\ isInitialAnimationComplete' /\ ~anim'.finished

SkipRevealsAll ==
    skipsInProgress =>
        /\ visibleNodeIds' = Persons /\ spouseVisibleFor' = Persons
        /\ personToFocusForAnimation' = NoPerson
        /\ anim'.isCancelled /\ ~anim'.timer
        /\ anim'.actions = anim.actions /\ anim'.applied = anim.applied

\* A cancelled sequence applies nothing: while the closure stays the
\* cancelled one, its count of applied actions and the visible sets stand.
CancelledAppliesNothing ==
    (anim.isCancelled /\ anim'.isCancelled) =>
        /\ anim'.applied = anim.applied /\ anim'.actions = anim.actions
        /\ visibleNodeIds' = visibleNodeIds /\ spouseVisibleFor' = spouseVisibleFor

\* Once the animation is complete no timeout of a sequence is pending, and
\* unless a sequence ran to its end every lookup id is in both visible sets.
CompleteMeansQuiet ==
    isInitialAnimationComplete =>
        /\ ~anim.timer
        /\ anim.finished \/ anim.isCancelled
        /\ ~anim.finished => visibleNodeIds = Persons /\ spouseVisibleFor = Persons

\* C10: a Skip during a reveal sequence leaves visibleNodeIds and
\* spouseVisibleFor equal to the set of lookup ids and the animation complete,
\* cancels the sequence and clears its pending timeout, and from then on no
\* action of that sequence is applied.
C10_SkipRevealsAllAndStops ==
    /\ [][SkipRevealsAll]_vars
    /\ [][CancelledAppliesNothing]_vars
    /\ []CompleteMeansQuiet

\* A sequence skipped after its first action and before its last: complete,
\* cancelled with actions left over, every lookup id visible.
C10_Witness ==
    /\ isInitialAnimationComplete /\ anim.isCancelled /\ ~anim.finished /\ ~anim.timer
    /\ 0 < anim.applied /\ anim.applied < Len(anim.actions)
    /\ visibleNodeIds = Persons /\ spouseVisibleFor = Persons
    /\ Cardinality(Persons) >= 2

\* ---------------------------------------------------------------- deep link
\* The page was opened with the id of a lookup person as focusedPersonId,
\* and the load went through.
deepLinked == loaded /\ ~hung /\ deepLink # 0 /\ deepLink \in Persons

\* C11: with a deep-link id present in the lookup the focus is that id, every
\* lookup id is visible, the animation is complete, and no action of the
\* reveal sequence has been applied: the sequencer has set no animation
\* focus target.
C11_DeepLinkSkipsReveal ==
    deepLinked =>
        /\ focusedPersonId = deepLink
        /\ visibleNodeIds = Persons /\ spouseVisibleFor = Persons
        /\ isInitialAnimationComplete
        /\ anim.applied = 0
        /\ personToFocusForAnimation = NoPerson

\* What does hold with a deep link: focus, visibility and completion.
DeepLinkShowsAll ==
    deepLinked =>
        /\ focusedPersonId = deepLink /\ selectedPerson = deepLink
        /\ visibleNodeIds = Persons /\ spouseVisibleFor = Persons
        /\ isInitialAnimationComplete /\ ~anim.timer

\* ===================================================================
\* Properties of the focus view (checked under SpecFocus)
\* ===================================================================
\* A person is focused and the page has rendered that focus.
focused == loaded /\ ~hung /\ focusedPersonId # NoPerson /\ focusedPersonId \in Persons

\* The persons n children-steps below x, and all of them with x itself.
RECURSIVE Below(_, _)
Below(x, n) ==
    IF n = 0 THEN {x}
    ELSE UNION { seqToSet(childrenOf(p)) : p \in Below(x, n - 1) }
DescendantsOf(x) == UNION { Below(x, n) : n \in 0..Len(peopleMap) }
SpousesOf(S) == { spouseOf(x) : x \in { y \in S : spouseOf(y) # 0 } }

C12_WitnessOthersOut ==
    /\ focused
    /\ spouseOf(focusedPersonId) \in highlightedIds \ {0, focusedPersonId}
    /\ Persons \ highlightedIds # {}

\* ------------------------------------------------------------ displayRoots
displayRoots == displayedRoots(peopleMap, roots, focusedPersonId).list

\* t is a copy of lookup person id carrying that person's whole descendant
\* tree: the children of every node are copies of the lookup children, in
\* their order, and the other fields are the lookup's.
RECURSIVE IsSubtreeOf(_, _)
IsSubtreeOf(t, id) ==
    /\ t.id = id /\ t.name = person(id).name /\ t.spouse = spouseOf(id)
    /\ Len(t.children) = Len(childrenOf(id))
    /\ \A k \in 1..Len(t.children) : IsSubtreeOf(t.children[k], childrenOf(id)[k])

fatherOf(x) == lookupParent(peopleMap, person(x).fatherID)
motherOf(x) == lookupParent(peopleMap, person(x).motherID)

\* t is a clone of parent p whose only child is the subtree of x.
IsPrunedCloneOf(t, p, x) ==
    /\ t.id = p /\ t.name = person(p).name
    /\ Len(t.children) = 1 /\ IsSubtreeOf(t.children[1], x)

C13_WitnessNoParent ==
    /\ focused
    /\ LookupParents(focusedPersonId) = {}
    /\ \E c \in seqToSet(childrenOf(focusedPersonId)) : childrenOf(c) # <<>>
    /\ Len(displayRoots) = 1 /\ Len(displayRoots[1].children) >= 1

\* ------------------------------------------------- the lookup under focus
builtGraph == useMemoGraph(engine, people)

C15_ScaleWithinLimits == 5 * scale[1] >= scale[2] /\ scale[1] <= 3 * scale[2]

\* A pinch that spread the fingers to four times their distance left the
\* scale at the upper limit.
C15_Witness == scale[1] = 3 * scale[2] /\ lastPinchDistance = 200 /\ inputs >= 2

\* The zoom-out button pressed on a tree fitted at the lower limit.
C15_WitnessLower == 5 * scale[1] = scale[2] /\ inputs >= 2 /\ pan.y = num(TOP_PADDING)

\* The content point under screen point p in view v is under p in view w.
anchored(v, w, p) ==
    LET contentPoint == [x |-> over(minus(p.x, v.pan.x), v.scale),
                         y |-> over(minus(p.y, v.pan.y), v.scale)]
    IN /\ plus(w.pan.x, times(contentPoint.x, w.scale)) = p.x
       /\ plus(w.pan.y, times(contentPoint.y, w.scale)) = p.y
viewportCentre == [x |-> ratio(dom.container.width, 2), y |-> ratio(dom.container.height, 2)]
PinchDistances == {distanceOf(t) : t \in Pinches}

\* The wheel keeps the content under the pointer and the pinch the content
\* under the midpoint of the fingers (holds).
PointerZoomKeepsAnchor ==
    mounted =>
        /\ \A e \in WheelEvents : anchored(view, wheel(view, e), mousePointOf(e))
        /\ \A t \in Pinches : \A last \in PinchDistances :
               anchored(view, pinch(view, t, last), midpointOf(t))

\* C16: every zoom input keeps the content point under its anchor where it
\* is on the screen: the wheel under the pointer, the pinch under the
\* midpoint of the touches, the zoom buttons at the centre of the viewport.
C16_ZoomKeepsAnchor ==
    /\ PointerZoomKeepsAnchor
    /\ mounted =>
          /\ anchored(view, zoomInOf(view), viewportCentre)
          /\ anchored(view, zoomOutOf(view), viewportCentre)

\* Two numbers, and two views, that differ by no more than a thousandth.
Tolerance == ratio(1, 1000)
near(a, b) == ~lessThan(Tolerance, minus(a, b)) /\ ~lessThan(Tolerance, minus(b, a))
sameView(v, w) == near(v.scale, w.scale) /\ near(v.pan.x, w.pan.x) /\ near(v.pan.y, w.pan.y)
wheelIn(v, p) == wheel(v, [clientX |-> p.x, clientY |-> p.y, deltaY |-> -100])
wheelOut(v, p) == wheel(v, [clientX |-> p.x, clientY |-> p.y, deltaY |-> 100])

\* Away from the limits the buttons undo each other, and so does a pinch
\* brought back to the distance it began with (holds).
UnclampedStepsUndo ==
    mounted =>
        /\ lessThan(times(scale, buttonFactor), maxScale)
              => sameView(view, zoomOutOf(zoomInOf(view)))
        /\ \A t \in Pinches : \A u \in Pinches :
              LET there == pinch(view, u, distanceOf(t))
              IN there.scale = times(scale, ratio(distanceOf(u), distanceOf(t)))
                    => sameView(view, pinch(there, t, distanceOf(u)))

\* C17: from any view, a zoom in at a pointer followed at once by a zoom
\* out at the same pointer gives back pan and scale, within tolerance, also
\* where the zoom in meets the upper limit of the scale; for the wheel and
\* for the buttons.
C17_ZoomInThenOutRestores ==
    mounted =>
        /\ \A p \in Points : sameView(view, wheelOut(wheelIn(view, p), p))
        /\ sameView(view, zoomOutOf(zoomInOf(view)))

\* The same, asked only of the views whose scale is at the upper limit.
ClampedZoomRestores ==
    (mounted /\ scale = maxScale) =>
        /\ \A p \in Points : sameView(view, wheelOut(wheelIn(view, p), p))
        /\ sameView(view, zoomOutOf(zoomInOf(view)))

\* ===================================================================
\* Properties of the minimap (checked under SpecView)
\* ===================================================================
indicatorCorner == [x |-> viewportStyle(minimapViewport).x, y |-> viewportStyle(minimapViewport).y]
\* The indicator's corner once the pan asked for by a pointer at the
\* indicator's corner has been applied.
cornerAfterPan ==
    LET asked == handleInteraction(minimapViewport, indicatorCorner)
        after == handleMinimapPanOf(view, dom, asked)
        shown == viewportStyle([minimapViewport EXCEPT !.pan = after.pan])
    IN [x |-> shown.x, y |-> shown.y]
withinOnePixel(a, b) == ~lessThan(num(1), minus(a, b)) /\ ~lessThan(num(1), minus(b, a))

\* C18: the minimap's inverse mapping at the indicator's top-left corner,
\* applied by handleMinimapPan, leaves the indicator within one pixel of
\* where it was; asked where the corner lies on the minimap's content.
C18_MinimapRoundTrip ==
    (minimapShown /\ onMinimapContent(minimapViewport, indicatorCorner)) =>
        /\ withinOnePixel(cornerAfterPan.x, indicatorCorner.x)
        /\ withinOnePixel(cornerAfterPan.y, indicatorCorner.y)

\* ===================================================================
\* Properties of the loader (checked under SpecLoad)
\* ===================================================================
failed == ~loading /\ error # NoError

\* A failed load leaves a message, no people and no roots (holds).
FailedLoadLeavesNothing ==
    failed => error # "" /\ people = <<>> /\ peopleMap = <<>> /\ roots = <<>>

\* C19: a load that failed has ended (loading is false) with a message in
\* error and with the people of the embedded fallback dataset, so the list
\* of people is not empty.
C19_FailedLoadUsesFallback ==
    (~loading /\ error # NoError) =>
        /\ error # ""
        /\ people = validPeople(fallbackData)
        /\ people # <<>>

\* ===================================================================
\* Cancellation of the reveal sequence (checked under Spec)
\* ===================================================================
\* A step in which a run of the effect starts a sequence.
startsSequence ==
    /\ anim'.timer /\ ~anim'.isCancelled /\ anim'.applied = 1
    /\ ~(anim.timer /\ ~anim.isCancelled /\ anim.applied = 1 /\ anim.actions = anim'.actions)

\* While the closure stays the cancelled one, nothing it would have set
\* changes, and its timeout is not pending.
CancelledSequenceIsSilent ==
    (anim.isCancelled /\ anim'.isCancelled /\ anim'.actions = anim.actions) =>
        /\ UNCHANGED <<visibleNodeIds, spouseVisibleFor, personToFocusForAnimation>>
        /\ ~anim.timer /\ ~anim'.timer

\* A sequence starts when there was none before or the one before was
\* cancelled, with no timeout of it left.
StartsAfterCancel ==
    startsSequence =>
        /\ anim = NoAnimation \/ anim.isCancelled
        /\ ~anim.timer /\ anim'.stale = {}

\* C20: a cancelled sequence changes none of visibleNodeIds,
\* spouseVisibleFor and personToFocusForAnimation; a new sequence starts
\* only when the one before is cancelled; no closure of an earlier run has a
\* timeout pending, so one sequence at most is applying actions.
C20_OneSequenceAtATime ==
    /\ [][CancelledSequenceIsSilent]_vars
    /\ [][StartsAfterCancel]_vars
    /\ [](anim.stale = {})

\* A sequence cancelled by the deep link's completion flag with actions
\* left to apply, and no timeout pending.
C20_Witness ==
    /\ deepLinked /\ focusedPersonId = deepLink /\ isInitialAnimationComplete
    /\ anim.isCancelled /\ ~anim.timer /\ anim.stale = {}
    /\ 0 < anim.applied /\ anim.applied < Len(anim.actions)

\* ===================================================================
\* Termination of the generations loop (checked under Spec)
\* ===================================================================
\* C26: for every lookup the graph builder makes, parent cycles reachable
\* from a root included, the loop that builds the reveal generations comes
\* to an empty generation, so the reveal effect returns.
C26_GenerationsLoopEnds ==
    (loaded /\ error = NoError) =>
        /\ ~buildGenerations(peopleMap, roots, <<>>).diverges
        /\ ~hung

\* Without a parent cycle below a root the loop ends (holds).
AcyclicGenerationsLoopEnds ==
    (loaded /\ \A x \in Persons : ~recursesForever(peopleMap, x)) =>
        ~buildGenerations(peopleMap, roots, <<>>).diverges

\* ------------------------------------------------- the unfocused forest
\* The ids met from a set of persons by following children links and, from
\* any person met, that person's resolved spouse link.
RECURSIVE MetWithin(_, _)
MetWithin(from, n) ==
    IF n = 0 THEN from
    ELSE LET met == MetWithin(from, n - 1) IN
         met \cup UNION { seqToSet(childrenOf(p)) : p \in met }
             \cup { spouseOf(p) : p \in { q \in met : spouseOf(q) # 0 } }
MetFrom(from) == MetWithin(from, Len(peopleMap))
ShownInForest == MetFrom(Roots)

\* The parentless persons the spouse-of-non-root exclusion keeps, and those
\* it drops.
KeptCandidates ==
    { a \in Persons : ~HasParentInLookup(a)
                      /\ (spouseOf(a) = 0 \/ ~HasParentInLookup(spouseOf(a))) }
DroppedCandidates ==
    { a \in Persons : ~HasParentInLookup(a)
                      /\ spouseOf(a) # 0 /\ HasParentInLookup(spouseOf(a)) }

C28_CompleteMeansAllVisible ==
    (isInitialAnimationComplete /\ ~hung) => ReachableIds \subseteq visibleNodeIds

\* ------------------------------------------------- selections and timeouts
\* C29: the delayed re-focus of an earlier selection never overrides a later
\* selection, so that selectedPerson and focusedPersonId settle on the most
\* recent selection: when the timeout of handleNodeClick fires, no selection
\* made after it was set is in place (the handler that set it left
\* selectedPerson and focusedPersonId empty).
C29_RefocusKeepsLaterSelection ==
    [][Len(refocus') < Len(refocus)
           => selectedPerson = NoPerson /\ focusedPersonId = NoPerson]_vars

\* Without a selection made while a timeout is pending, the timeout's person
\* is the one selected and focused once it has fired.
UndisturbedRefocusSettles ==
    [][(Len(refocus') < Len(refocus) /\ selectedPerson = NoPerson)
           => (selectedPerson' = Head(refocus) /\ focusedPersonId' = Head(refocus))]_vars

\* ------------------------------------------------------ the latest sheetUrl
\* C30: once no fetch is in flight, people, error and loading are those of
\* the load of the latest sheetUrl: a late answer of an earlier fetch has not
\* replaced them.
C30_LatestUrlWins ==
    fetches = <<>> =>
        /\ ~loading
        /\ IF answers(sheetUrl)
           THEN error = NoError /\ people = validPeople(sheetAt(sheetUrl))
           ELSE error = NotOkMessage /\ people = <<>>

\* While the fetch of the latest sheetUrl is the only one in flight, its
\* answer is what the hook settles on.
OnlyFetchWins ==
    [][(fetches = <<sheetUrl>> /\ fetches' = <<>>)
           => /\ ~loading'
              /\ IF answers(sheetUrl)
                 THEN error' = NoError /\ people' = validPeople(sheetAt(sheetUrl))
                 ELSE error' = NotOkMessage /\ people' = <<>>]_vars

\* ------------------------------------------------------------------- C21
\* The pan and scale after the step.
viewAfter == [scale |-> scale', pan |-> pan']

\* C21: every wheel, pinch, drag and minimap-pan event computes the new pan
\* and scale from the pan and scale the event before it produced, also when
\* no render came in between: no update is taken from an older snapshot.
C21_EventsComputeFromLatest ==
    [][/\ handleWheel => \E e \in WheelEvents : viewAfter = wheel(view, e)
       /\ handleMouseMove => \E e \in Movements : viewAfter = dragged(e)
       /\ (handleTouchMove /\ touchesDown = 2) =>
              \E t \in Pinches : viewAfter = pinch(view, t, lastPinchDistance)
       /\ minimapMouseDown =>
              \E click \in MinimapClicks :
                 viewAfter.pan = handleMinimapPanOf(view, dom,
                                     handleInteraction(minimapViewport, click)).pan]_vars

\* What the handlers do: the drags add to the latest pan, the wheel, the
\* pinch and the minimap compute from the pan and scale of the last render.
EventsComputeFromRendered ==
    [][/\ handleWheel => \E e \in WheelEvents : viewAfter = wheel(rendered, e)
       /\ handleMouseMove => \E e \in Movements : viewAfter = dragged(e)
       /\ (handleTouchMove /\ touchesDown = 2) =>
              \E t \in Pinches : viewAfter = pinch(rendered, t, lastPinchDistance)
       /\ (handleTouchMove /\ touchesDown = 1) => scale' = scale]_vars
\* Two events without a render between them.
C21_Witness == rendered # view /\ inputs >= 2

\* ------------------------------------------------------------------- C22
\* C22: a panToTop or panToPerson that finds nothing to measure is tried
\* again on a later frame and the retrying is bounded: every chain of
\* retries stops, also when the element never appears.
C22_RetryStops == (frame.callback # "none") ~> (frame.callback = "none")

\* The first half on its own: such a call changes neither pan nor scale and
\* hands itself to requestAnimationFrame.
UnmeasuredCallRetries ==
    [][((panToTop /\ unmeasured(dom, isSidebarVisible)) \/ (panToPerson /\ dom.nodes = {})) =>
          /\ viewAfter = view /\ frame'.callback # "none"
          /\ frame'.handle # frame.handle]_vars
\* A retry that found nothing again.
C22_Witness == frame.callback # "none" /\ frame.handle = 0

\* ------------------------------------------------------------------- C23
\* The step is the release of a stationary touch from the person target.
tappedOn(target) ==
    /\ mounted /\ isTap(target) /\ inputs' = inputs + 1
    /\ \E t \in Touches : Len(t) < touchesDown /\ touchEnd(t, target)
\* The tap before was a single tap on target less than DOUBLE_TAP_DELAY ago,
\* and its timeout is still to come.
tappedJustBefore(target) ==
    /\ tapTimers # <<>>
    /\ tapTimers[Len(tapTimers)].personId = target
    /\ tapTimers[Len(tapTimers)].status = "pending"
    /\ now < tapTimers[Len(tapTimers)].due

\* C23: the second of two stationary taps on one person within 300 ms calls
\* onShowDetails once, sets no timeout of its own and clears the timeout of
\* the first tap, so that onFocusPerson is called for neither.
C23_DoubleTapShowsDetailsOnce ==
    [][\A target \in tapTargets :
          (tappedOn(target) /\ tappedJustBefore(target)) =>
              /\ detailsShown' = Append(detailsShown, target)
              /\ tapTimers' = clearTimeout(tapTimers, Len(tapTimers))]_vars

\* The same where the first tap is still the one lastTapInfoRef holds.
DoubleTapOfRememberedTap ==
    [][\A target \in tapTargets :
          (tappedOn(target) /\ tappedJustBefore(target) /\ lastTapInfo # <<>>) =>
              /\ detailsShown' = Append(detailsShown, target)
              /\ tapTimers' = clearTimeout(tapTimers, Len(tapTimers))]_vars
C23_Witness == detailsShown # <<>> /\ tapTimers[Len(tapTimers)].status = "cleared"

\* ------------------------------------------------------------------- C24
\* C24: moving further than the threshold, or a second finger, takes the tap
\* away from its own gesture only: the release of that gesture is no tap,
\* and the timeout of a tap released before is left to fire.
C24_MovementCancelsOwnGestureOnly ==
    [][/\ (handleTouchStart \/ handleTouchMove) => tapTimers' = tapTimers
       /\ (handleTouchEnd /\ hasMoved) =>
              tapTimers' = tapTimers /\ detailsShown' = detailsShown]_vars

\* The first half on its own: the release of a gesture that moved or had a
\* second finger sets no timeout and shows no details.
MovedReleaseIsNoTap ==
    [][(handleTouchEnd /\ hasMoved) =>
          tapTimers' = tapTimers /\ detailsShown' = detailsShown]_vars
C24_Witness ==
    /\ hasMoved /\ touches = <<>> /\ tapTimers # <<>>
    /\ tapTimers[Len(tapTimers)].status = "cleared" /\ detailsShown = <<>>

\* ------------------------------------------------------------------- C25
\* The pan moved by the way from point p to point q.
movedBy(p, q) == [x |-> plus(pan.x, num(q.x - p.x)), y |-> plus(pan.y, num(q.y - p.y))]

====
